---- MODULE Spec2Model ----
(***************************************************************************)
(* Model of the full-description scraping pipeline:                        *)
(*   - backfill_full_descriptions.py : main, load_checkpoint,              *)
(*     save_checkpoint (checkpointed batch run over dataset.csv)           *)
(*   - scrape_full_descriptions.py   : scrape_with_retry (retry            *)
(*     controller), get_browser / close_browser (browser session)          *)
(* The specifications of the module share its variables: Spec (backfill    *)
(* runs, with abrupt termination and restart), RetrySpec (one call of      *)
(* scrape_with_retry against an arbitrary fetch), BrowserSpec (any         *)
(* sequence of get_browser / close_browser calls), ScrapeSpec              *)
(* (scrape_with_retry on scrape_full_description), NewJobsSpec             *)
(* (scrape_new_jobs), NumberingSpec (job numbers and files of the          *)
(* backfill), and ClassifierSpec, SlugSpec, SaveSpec and ExtractorSpec     *)
(* (one function each).                                                    *)
(***************************************************************************)
EXTENDS Integers, Sequences, FiniteSets, TLC

VARIABLES
    \* ---- backfill_full_descriptions.py ----
    pc,               \* position of the backfill process
    dataset_csv,      \* dataset.csv on disk: sequence of records
    checkpoint_file,  \* backfill_checkpoint.json on disk
    df,               \* main: the DataFrame in memory
    start_row,        \* main: checkpoint['last_completed_row'] + 1
    idx,              \* main: loop index (0-based, as in the source)
    rows_processed,   \* main
    rows_succeeded,   \* main
    rows_failed,      \* main
    run,              \* number of runs of main started so far
    \* history of the current run (observers, never read by the program)
    loaded,           \* what load_checkpoint found at the start of the run
    prev_end,         \* how the previous run ended
    df0,              \* the DataFrame as read at the start of the run
    visited,          \* sequence of indexes the loop has entered
    fetched,          \* indexes passed to scrape_with_retry
    saved,            \* indexes passed to save_full_description
    unsaved,          \* rows_processed increments since the last persist
    \* ---- scrape_with_retry ----
    r_pc,             \* "loop" | "returned"
    max_retries,      \* the argument
    attempt,          \* loop variable (0-based)
    events,           \* fetch calls and sleeps, in order
    result,           \* the returned pair
    \* ---- get_browser / close_browser ----
    _browser,         \* module global: browser handle or None (0)
    _playwright,      \* module global: driver handle or None (0)
    live_browsers,    \* browser processes launched and not closed
    live_drivers,     \* Playwright drivers started and not stopped
    started,          \* number of handles created so far
    launches,         \* number of browser processes launched so far
    close_called,     \* close_browser has been called at least once
    last_call,        \* the last call and what it returned
    \* ---- scrape_new_jobs ----
    nj_pc,            \* "idle" | "start" | "loop" | "returned" | "raised"
    nj_df,            \* the DataFrame argument: sequence of records
    nj_idx,           \* position of the iterator over df.index (1-based)
    date_counters,    \* dict date_key -> last job number (0: key absent)
    nj_files,         \* files written by save_full_description, in order
    \* ---- scrape_full_description (called by scrape_with_retry) ----
    f_pc,             \* "idle" | "entry" | "standard" | "extract" |
                      \* "escalate" | "return"
    url,              \* the argument
    downloaded,       \* local: HTML or None
    used_browser,     \* local
    text,             \* local: extracted text or None
    ret,              \* the value the call returns
    ops,              \* what the current call has done, in order
    escalations,      \* escalations (line 545) over all calls for the url
    \* ---- is_generic_content ----
    cl_pc,            \* "idle" | "call" | "returned"
    cl_text,          \* the argument
    cl_result,        \* the value returned
    \* ---- create_slug ----
    sl_pc,            \* "idle" | "call" | "once" | "twice"
    sl_text,          \* the argument
    sl_slug,          \* create_slug(sl_text)
    sl_again,         \* create_slug(sl_slug)
    \* ---- save_full_description ----
    files,            \* the file system: set of [path, bytes]
    sv_args,          \* arguments of the last call, None before it
    sv_path,          \* the path the last call returned
    sv_calls,         \* number of calls so far
    \* ---- scrape_governmentjobs.extract_with_playwright ----
    gj_pc,            \* "idle" | "call" | "returned"
    gj_page,          \* the page argument
    gj_text,          \* the value returned
    \* ---- backfill main: job numbers and description files ----
    bn_pc,            \* "idle" | "loop" | "done" | "raised" | "stopped"
    bn_csv,           \* dataset.csv on disk
    bn_checkpoint,    \* last_completed_row on disk, -1 without a file
    bn_df,            \* main: the DataFrame in memory
    bn_idx,           \* main: loop index (0-based)
    bn_date_counters, \* main: date_counters (0: key absent)
    bn_rows_processed,\* main
    bn_runs,          \* number of runs started so far
    bn_writes         \* every file written so far: [path, row]

backfill_vars == <<pc, dataset_csv, checkpoint_file, df, start_row, idx,
                   rows_processed, rows_succeeded, rows_failed, run, loaded,
                   prev_end, df0, visited, fetched, saved, unsaved>>
retry_vars == <<r_pc, max_retries, attempt, events, result>>
browser_vars == <<_browser, _playwright, live_browsers, live_drivers, started,
                  launches, close_called, last_call>>
newjobs_vars == <<nj_pc, nj_df, nj_idx, date_counters, nj_files>>
fetch_vars == <<f_pc, url, downloaded, used_browser, text, ret, ops,
                escalations>>
classifier_vars == <<cl_pc, cl_text, cl_result>>
\* the functions that are called on their own
slug_vars == <<sl_pc, sl_text, sl_slug, sl_again>>
save_vars == <<files, sv_args, sv_path, sv_calls>>
extractor_vars == <<gj_pc, gj_page, gj_text>>
numbering_vars == <<bn_pc, bn_csv, bn_checkpoint, bn_df, bn_idx,
                    bn_date_counters, bn_rows_processed, bn_runs, bn_writes>>
pure_vars == <<classifier_vars, slug_vars, save_vars, extractor_vars,
               numbering_vars>>
vars == <<backfill_vars, retry_vars, browser_vars, newjobs_vars, fetch_vars,
          pure_vars>>

(***************************************************************************)
(* Bounds of the model.                                                    *)
(***************************************************************************)
\* longest record store (len(df))
MaxRows == 4
\* BATCH_SIZE of backfill_full_descriptions.py:23 is 100; the model runs the
\* same code with a small batch so that batches complete within MaxRows.
BATCH_SIZE == 2
\* number of times main is started (first run plus restarts)
MaxRuns == 3
\* longest DataFrame passed to scrape_new_jobs
MaxNewJobs == 3

(***************************************************************************)
(* Record store.  A record carries what main reads of it: the link, and    *)
(* whether full_text_preview is set (pd.notna).                            *)
(***************************************************************************)
\* link: "http" passes the test of line 94, "bad" (NaN, '' or not http) fails.
\* A record with a preview was scraped from its link, so its link is valid.
Record == { [link |-> "http", full_text_preview |-> "NaN"],
            [link |-> "bad",  full_text_preview |-> "NaN"],
            [link |-> "http", full_text_preview |-> "text"] }

SeqsUpTo(S, n) == UNION { [1..k -> S] : k \in 0..n }

\* backfill_checkpoint.json: absent, a complete JSON document, or what an
\* interrupted open(..., 'w') / json.dump leaves: empty or partly written
NoFile == [state |-> "absent"]
Complete(row) == [state |-> "complete", last_completed_row |-> row]
Empty == [state |-> "empty"]
Partial == [state |-> "partial"]

(***************************************************************************)
(* backfill_full_descriptions.py                                           *)
(***************************************************************************)
Running == {"loop", "save_checkpoint", "json_dump", "to_csv", "summary",
            "final_save", "cleanup"}
Stopped == {"idle", "done", "crashed", "raised", "interrupted"}

\* load_checkpoint: the default when no file exists, else json.load of it
DefaultCheckpoint == [last_completed_row |-> -1]
Readable(file) == file.state \in {"absent", "complete"}
load_checkpoint(file) ==
    IF file.state = "complete"
    THEN [last_completed_row |-> file.last_completed_row]
    ELSE DefaultCheckpoint

\* faulty variant of StartRow: resumes at the last completed row itself
StartRow_Reprocess(checkpoint) ==
    IF checkpoint.last_completed_row < 0 THEN 0
    ELSE checkpoint.last_completed_row

\* main, line 57
StartRow(checkpoint) == checkpoint.last_completed_row + 1

\* main, line 141
BatchDue(n) == n % BATCH_SIZE = 0

\* pd.notna(df.at[idx, 'full_text_preview']), line 87
AlreadyScraped(row) == row.full_text_preview # "NaN"

\* line 94: the URL is NaN, '' or does not start with http
InvalidUrl(row) == row.link # "http"

\* lines 123-126: the four full_text_* fields of row idx are set
UpdateDataframe(d, i) == [d EXCEPT ![i + 1].full_text_preview = "text"]

ResetCounters ==
    /\ rows_processed' = 0
    /\ rows_succeeded' = 0
    /\ rows_failed' = 0
    /\ visited' = <<>>
    /\ fetched' = {}
    /\ saved' = {}
    /\ unsaved' = 0

\* main, lines 44-81: read dataset.csv, load the checkpoint, set up the
\* counters.  json.load raises on an empty or partly written file and the
\* exception leaves main.
StartMain ==
    /\ pc \in Stopped
    /\ run < MaxRuns
    /\ run' = run + 1
    /\ prev_end' = pc
    /\ loaded' = checkpoint_file
    /\ df' = dataset_csv
    /\ df0' = dataset_csv
    /\ ResetCounters
    /\ IF Readable(checkpoint_file)
       THEN /\ start_row' = StartRow(load_checkpoint(checkpoint_file))
            /\ idx' = start_row'
            /\ pc' = "loop"
       ELSE /\ pc' = "raised"
            /\ UNCHANGED <<start_row, idx>>
    /\ UNCHANGED <<dataset_csv, checkpoint_file>>

InLoop == pc = "loop" /\ idx < Len(df)

\* faulty variant of SkipScraped: the record is counted as processed
SkipScraped_Counted ==
    /\ InLoop
    /\ AlreadyScraped(df[idx + 1])
    /\ visited' = Append(visited, idx)
    /\ rows_processed' = rows_processed + 1
    /\ unsaved' = unsaved + 1
    /\ idx' = idx + 1
    /\ UNCHANGED <<pc, dataset_csv, checkpoint_file, df, start_row,
                   rows_succeeded, rows_failed, run, loaded, prev_end, df0,
                   fetched, saved>>

\* lines 86-89: already scraped, continue
SkipScraped ==
    /\ InLoop
    /\ AlreadyScraped(df[idx + 1])
    /\ visited' = Append(visited, idx)
    /\ idx' = idx + 1
    /\ UNCHANGED <<pc, dataset_csv, checkpoint_file, df, start_row,
                   rows_processed, rows_succeeded, rows_failed, run, loaded,
                   prev_end, df0, fetched, saved, unsaved>>

\* lines 93-97: invalid URL, counted as processed, continue
SkipInvalid ==
    /\ InLoop
    /\ ~AlreadyScraped(df[idx + 1])
    /\ InvalidUrl(df[idx + 1])
    /\ visited' = Append(visited, idx)
    /\ rows_processed' = rows_processed + 1
    /\ unsaved' = unsaved + 1
    /\ idx' = idx + 1
    /\ UNCHANGED <<pc, dataset_csv, checkpoint_file, df, start_row,
                   rows_succeeded, rows_failed, run, loaded, prev_end, df0,
                   fetched, saved>>

\* What scrape_with_retry and save_full_description do for one record:
\*   "ok"            text returned and the file written
\*   "save_failed"   text returned, save_full_description raises
\*   "scrape_failed" no text (None or '')
ScrapeOutcome == {"ok", "save_failed", "scrape_failed"}

\* lines 99-141: scrape the record, save the file, update the row, count it,
\* and decide whether the batch is due
ScrapeRow(outcome) ==
    /\ InLoop
    /\ ~AlreadyScraped(df[idx + 1])
    /\ ~InvalidUrl(df[idx + 1])
    /\ visited' = Append(visited, idx)
    /\ fetched' = fetched \cup {idx}
    /\ saved' = IF outcome = "scrape_failed" THEN saved ELSE saved \cup {idx}
    /\ IF outcome = "ok"
       THEN /\ df' = UpdateDataframe(df, idx)
            /\ rows_succeeded' = rows_succeeded + 1
            /\ UNCHANGED rows_failed
       ELSE /\ rows_failed' = rows_failed + 1
            /\ UNCHANGED <<df, rows_succeeded>>
    /\ rows_processed' = rows_processed + 1
    /\ unsaved' = unsaved + 1
    /\ IF BatchDue(rows_processed')
       THEN pc' = "save_checkpoint" /\ UNCHANGED idx
       ELSE pc' = "loop" /\ idx' = idx + 1
    /\ UNCHANGED <<dataset_csv, checkpoint_file, start_row, run, loaded,
                   prev_end, df0>>

\* save_checkpoint, line 40: open(CHECKPOINT_FILE, 'w') truncates the file
SaveCheckpointOpen ==
    /\ pc = "save_checkpoint"
    /\ checkpoint_file' = Empty
    /\ pc' = "json_dump"
    /\ UNCHANGED <<dataset_csv, df, start_row, idx, rows_processed,
                   rows_succeeded, rows_failed, run, loaded, prev_end, df0,
                   visited, fetched, saved, unsaved>>

\* save_checkpoint, line 41: json.dump and the close that ends the with block
SaveCheckpointDump ==
    /\ pc = "json_dump"
    /\ checkpoint_file' = Complete(idx)
    /\ pc' = "to_csv"
    /\ UNCHANGED <<dataset_csv, df, start_row, idx, rows_processed,
                   rows_succeeded, rows_failed, run, loaded, prev_end, df0,
                   visited, fetched, saved, unsaved>>

\* line 151: df.to_csv('dataset.csv'), then the next iteration.  The write
\* of dataset.csv is taken as one step.
ToCsv ==
    /\ pc = "to_csv"
    /\ dataset_csv' = df
    /\ unsaved' = 0
    /\ idx' = idx + 1
    /\ pc' = "loop"
    /\ UNCHANGED <<checkpoint_file, df, start_row, rows_processed,
                   rows_succeeded, rows_failed, run, loaded, prev_end, df0,
                   visited, fetched, saved>>

\* range(start_row, total_rows) is exhausted
LoopEnd ==
    /\ pc = "loop"
    /\ idx >= Len(df)
    /\ pc' = "summary"
    /\ UNCHANGED <<dataset_csv, checkpoint_file, df, start_row, idx,
                   rows_processed, rows_succeeded, rows_failed, run, loaded,
                   prev_end, df0, visited, fetched, saved, unsaved>>

\* lines 155-159: the summary divides by rows_processed; with no processed
\* row the ZeroDivisionError leaves main before the final save
Summary ==
    /\ pc = "summary"
    /\ pc' = IF rows_processed = 0 THEN "raised" ELSE "final_save"
    /\ UNCHANGED <<dataset_csv, checkpoint_file, df, start_row, idx,
                   rows_processed, rows_succeeded, rows_failed, run, loaded,
                   prev_end, df0, visited, fetched, saved, unsaved>>

\* line 161
FinalSave ==
    /\ pc = "final_save"
    /\ dataset_csv' = df
    /\ unsaved' = 0
    /\ pc' = "cleanup"
    /\ UNCHANGED <<checkpoint_file, df, start_row, idx, rows_processed,
                   rows_succeeded, rows_failed, run, loaded, prev_end, df0,
                   visited, fetched, saved>>

\* faulty variant of RemoveCheckpoint: the run ends without removing the file
RemoveCheckpoint_Keep ==
    /\ pc = "cleanup"
    /\ pc' = "done"
    /\ UNCHANGED <<dataset_csv, checkpoint_file, df, start_row, idx,
                   rows_processed, rows_succeeded, rows_failed, run, loaded,
                   prev_end, df0, visited, fetched, saved, unsaved>>

\* lines 165-167: os.remove(CHECKPOINT_FILE) if it exists
RemoveCheckpoint ==
    /\ pc = "cleanup"
    /\ checkpoint_file' = NoFile
    /\ pc' = "done"
    /\ UNCHANGED <<dataset_csv, df, start_row, idx, rows_processed,
                   rows_succeeded, rows_failed, run, loaded, prev_end, df0,
                   visited, fetched, saved, unsaved>>

\* The process is terminated abruptly.  Memory is lost; the files stay as
\* they are, and a checkpoint being written stays empty or partly written.
Crash ==
    /\ pc \in Running
    /\ pc' = "crashed"
    /\ IF pc = "json_dump"
       THEN checkpoint_file' \in {Empty, Partial}
       ELSE UNCHANGED checkpoint_file
    /\ UNCHANGED <<dataset_csv, df, start_row, idx, rows_processed,
                   rows_succeeded, rows_failed, run, loaded, prev_end, df0,
                   visited, fetched, saved, unsaved>>

\* The run is asked to stop (SIGINT): KeyboardInterrupt is raised in main
\* between two iterations.  main has no handler and no finally block, and
\* scrape_with_retry catches Exception only, so the exception leaves main.
Interrupt ==
    /\ pc = "loop"
    /\ pc' = "interrupted"
    /\ UNCHANGED <<dataset_csv, checkpoint_file, df, start_row, idx,
                   rows_processed, rows_succeeded, rows_failed, run, loaded,
                   prev_end, df0, visited, fetched, saved, unsaved>>

BackfillIdle ==
    /\ pc = "idle"
    /\ checkpoint_file = NoFile
    /\ df = <<>>
    /\ df0 = <<>>
    /\ start_row = 0
    /\ idx = 0
    /\ rows_processed = 0
    /\ rows_succeeded = 0
    /\ rows_failed = 0
    /\ run = 0
    /\ loaded = NoFile
    /\ prev_end = "idle"
    /\ visited = <<>>
    /\ fetched = {}
    /\ saved = {}
    /\ unsaved = 0

(***************************************************************************)
(* scrape_full_descriptions.py: scrape_with_retry                          *)
(***************************************************************************)
\* largest max_retries argument tried
MaxRetriesArg == 3
\* RATE_LIMIT_DELAY = 1.0 seconds
RATE_LIMIT_DELAY == 1

\* Python values: None and strings
None == [py |-> "None"]
Str(s) == [py |-> "str", s |-> s]

\* What one call of the fetch (scrape_full_description) can do: return a
\* text, return None, raise requests.exceptions.Timeout, raise another
\* requests.exceptions.RequestException, or raise any other Exception e,
\* of which scrape_with_retry reads str(e).
Texts == {"", "job text"}
Messages == {"", "boom"}
FetchOutcome ==
    { [kind |-> "text", text |-> t] : t \in Texts }
    \cup { [kind |-> k] : k \in {"none", "timeout", "request_error"} }
    \cup { [kind |-> "other", msg |-> m] : m \in Messages }

FetchEvent(o) == [ev |-> "fetch", outcome |-> o]
SleepEvent(d) == [ev |-> "sleep", seconds |-> d]

\* lines 576-577: text is not None
Success(o) == o.kind = "text"
\* faulty variant of Retryable: every exception is retried
Retryable_All(o) == o.kind # "text"

\* lines 579 (None without exception), 584, 588
Retryable(o) == o.kind \in {"none", "timeout", "request_error"}
\* faulty variant of SleepDue: sleeps after the final attempt too
SleepDue_Always(a, m) == a < m

\* lines 580, 586, 590: attempt < max_retries - 1
SleepDue(a, m) == a < m - 1
\* faulty variant of Backoff: a fixed delay
Backoff_Constant(a) == RATE_LIMIT_DELAY

\* lines 581, 587, 591: (2 ** attempt) * RATE_LIMIT_DELAY
Backoff(a) == (2 ^ a) * RATE_LIMIT_DELAY
\* faulty variant of ExhaustedResult: no error reported
ExhaustedResult_NoError == <<None, None>>

\* line 596
ExhaustedResult == <<None, Str("Max retries exceeded")>>
\* line 594: return None, str(e)
TerminalResult(o) == <<None, Str(o.msg)>>
\* line 577: return text, None
SuccessResult(o) == <<Str(o.text), None>>

\* one iteration of the for loop, lines 572-594
RetryAttempt(o) ==
    /\ r_pc = "loop"
    /\ attempt < max_retries
    /\ IF Success(o)
       THEN /\ events' = Append(events, FetchEvent(o))
            /\ result' = SuccessResult(o)
            /\ r_pc' = "returned"
            /\ UNCHANGED attempt
       ELSE IF Retryable(o)
       THEN /\ events' = IF SleepDue(attempt, max_retries)
                         THEN events \o <<FetchEvent(o),
                                          SleepEvent(Backoff(attempt))>>
                         ELSE Append(events, FetchEvent(o))
            /\ attempt' = attempt + 1
            /\ UNCHANGED <<result, r_pc>>
       ELSE /\ events' = Append(events, FetchEvent(o))
            /\ result' = TerminalResult(o)
            /\ r_pc' = "returned"
            /\ UNCHANGED attempt
    /\ UNCHANGED max_retries

\* the loop is exhausted, line 596
RetryExhausted ==
    /\ r_pc = "loop"
    /\ attempt >= max_retries
    /\ result' = ExhaustedResult
    /\ r_pc' = "returned"
    /\ UNCHANGED <<max_retries, attempt, events>>

RetryIdle ==
    /\ r_pc = "loop"
    /\ max_retries = 0
    /\ attempt = 0
    /\ events = <<>>
    /\ result = <<>>

(***************************************************************************)
(* scrape_full_descriptions.py: get_browser, close_browser                 *)
(***************************************************************************)
\* handles (drivers and browsers) created over one behaviour
MaxHandles == 4

\* None as a handle
NoHandle == 0

\* How the try block of get_browser ends (lines 53-60)
LaunchOutcome == {"import_failed", "start_failed", "launch_failed", "ok"}

\* get_browser, lines 45-62
GetBrowser(outcome) ==
    /\ IF _browser = NoHandle
       THEN CASE outcome \in {"import_failed", "start_failed"} ->
                   \* line 54 or 55 raises: nothing was assigned
                   /\ last_call' = [fn |-> "get_browser", ret |-> NoHandle,
                                    failed |-> TRUE]
                   /\ UNCHANGED <<_browser, _playwright, live_browsers,
                                  live_drivers, started, launches>>
              [] outcome = "launch_failed" ->
                   \* line 55 assigned _playwright, line 56 raises
                   /\ started + 1 <= MaxHandles
                   /\ _playwright' = started + 1
                   /\ live_drivers' = live_drivers \cup {started + 1}
                   /\ started' = started + 1
                   /\ last_call' = [fn |-> "get_browser", ret |-> NoHandle,
                                    failed |-> TRUE]
                   /\ UNCHANGED <<_browser, live_browsers, launches>>
              [] outcome = "ok" ->
                   /\ started + 2 <= MaxHandles
                   /\ _playwright' = started + 1
                   /\ live_drivers' = live_drivers \cup {started + 1}
                   /\ _browser' = started + 2
                   /\ live_browsers' = live_browsers \cup {started + 2}
                   /\ started' = started + 2
                   /\ launches' = launches + 1
                   /\ last_call' = [fn |-> "get_browser", ret |-> started + 2,
                                    failed |-> FALSE]
       ELSE /\ outcome = "ok"
            /\ last_call' = [fn |-> "get_browser", ret |-> _browser,
                             failed |-> FALSE]
            /\ UNCHANGED <<_browser, _playwright, live_browsers, live_drivers,
                           started, launches>>
    /\ UNCHANGED close_called

\* How _browser.close() / _playwright.stop() end: normally, or raising with
\* the process still there, or raising with the process gone
CloseOutcome == {"closed", "raised_alive", "raised_gone"}

\* close_browser, lines 65-81
CloseBrowser(close, stop) ==
    /\ IF _browser # NoHandle
       THEN /\ _browser' = IF close = "closed" THEN NoHandle ELSE _browser
            /\ live_browsers' = IF close = "raised_alive"
                                THEN live_browsers
                                ELSE live_browsers \ {_browser}
       ELSE /\ close = "closed"
            /\ UNCHANGED <<_browser, live_browsers>>
    /\ IF _playwright # NoHandle
       THEN /\ _playwright' = IF stop = "closed" THEN NoHandle ELSE _playwright
            /\ live_drivers' = IF stop = "raised_alive"
                               THEN live_drivers
                               ELSE live_drivers \ {_playwright}
       ELSE /\ stop = "closed"
            /\ UNCHANGED <<_playwright, live_drivers>>
    /\ close_called' = TRUE
    /\ last_call' = [fn |-> "close_browser", ret |-> NoHandle, failed |-> FALSE]
    /\ UNCHANGED <<started, launches>>

\* What scrape_with_retry does to the browser session while it scrapes one
\* record of a run: nothing (static fetch), or get_browser (lines 102, 484)
\* which launches the browser or returns the one already held.
BrowserUse == {"none", "ok"}
UseBrowser(b) ==
    IF b = "none"
    THEN UNCHANGED browser_vars
    ELSE GetBrowser(b)

\* lines 41-42: a new Python process imports the module
NewProcess ==
    /\ _browser' = NoHandle
    /\ _playwright' = NoHandle
    /\ live_browsers' = {}
    /\ live_drivers' = {}
    /\ started' = 0
    /\ launches' = 0
    /\ close_called' = FALSE
    /\ last_call' = [fn |-> "none", ret |-> NoHandle, failed |-> FALSE]

BrowserIdle ==
    /\ _browser = NoHandle
    /\ _playwright = NoHandle
    /\ live_browsers = {}
    /\ live_drivers = {}
    /\ started = 0
    /\ launches = 0
    /\ close_called = FALSE
    /\ last_call = [fn |-> "none", ret |-> NoHandle, failed |-> FALSE]

(***************************************************************************)
(* is_generic_content (scrape_full_descriptions.py, lines 165-232)         *)
(***************************************************************************)
\* most pieces a text is made of
MaxPieces == 4

\* A text is a sequence of pieces separated by one space.  A piece is a
\* word or phrase spelled out, or a run of len characters of other prose.
Word(w) == [w |-> w, len |-> Len(w)]
Prose(n) == [w |-> "...", len |-> n]
TextPieces == { Word("privacy policy"), Word("PRIVACY POLICY"), Word("gdpr"),
                Word("salary"), Word("position"), Word("required"),
                Prose(90), Prose(500), Prose(1000) }

\* lines 185-194
strong_generic_phrases == { "privacy policy", "cookie policy",
                            "terms of service", "terms and conditions",
                            "data protection", "gdpr", "page not found",
                            "404 error" }
\* lines 209-221
job_keywords == { "responsibilities", "qualifications", "salary", "position",
                  "required", "experience", "education", "duties", "benefits",
                  "apply", "application" }

\* faulty variant of lower: case is kept
lower_Keep(piece) == piece

\* str.lower() on one piece (line 178)
lower(piece) ==
    IF piece.w = "PRIVACY POLICY"
    THEN [w |-> "privacy policy", len |-> piece.len]
    ELSE piece

RECURSIVE PiecesLen(_)
PiecesLen(s) ==
    IF s = <<>> THEN 0 ELSE s[1].len + PiecesLen(Tail(s))
\* len(text)
TextLen(s) == IF s = <<>> THEN 0 ELSE PiecesLen(s) + (Len(s) - 1)
\* index of the character after piece i
EndOf(s, i) == TextLen(SubSeq(s, 1, i))

\* lines 182, 197: the phrases found in text_lower[:1000]
generic_count(s) ==
    Cardinality({ phrase \in strong_generic_phrases :
                    \E i \in 1..Len(s) :
                        lower(s[i]).w = phrase /\ EndOf(s, i) <= 1000 })
\* line 224: the keywords found in text_lower
job_keyword_count(s) ==
    Cardinality({ keyword \in job_keywords :
                    \E i \in 1..Len(s) : lower(s[i]).w = keyword })

\* faulty variant of TooShort: the limit is 50 characters
TooShort_Fifty(t) == t = None \/ t.s = <<>> \/ TextLen(t.s) < 50

\* line 175: not text or len(text) < 100
TooShort(t) == t = None \/ t.s = <<>> \/ TextLen(t.s) < 100

\* faulty variant of DefaultVerdict: generic unless shown to be a job
DefaultVerdict_Generic == TRUE
\* line 232: return False
DefaultVerdict == FALSE

is_generic_content(t) ==
    IF TooShort(t) THEN TRUE
    ELSE IF generic_count(t.s) >= 2 THEN TRUE
    ELSE IF TextLen(t.s) < 500 /\ generic_count(t.s) >= 1 THEN TRUE
    ELSE IF job_keyword_count(t.s) >= 3 THEN FALSE
    ELSE IF TextLen(t.s) < 1000 /\ generic_count(t.s) > 0 THEN TRUE
    ELSE DefaultVerdict

\* one call is_generic_content(cl_text)
Classify ==
    /\ cl_pc = "call"
    /\ cl_result' = is_generic_content(cl_text)
    /\ cl_pc' = "returned"
    /\ UNCHANGED cl_text

ClassifierIdle ==
    /\ cl_pc = "idle"
    /\ cl_text = None
    /\ cl_result = FALSE

(***************************************************************************)
(* create_slug (scrape_full_descriptions.py, lines 599-633)                *)
(***************************************************************************)
\* most pieces a title is made of
MaxTitlePieces == 3
\* the default of the max_length argument, line 599
max_length == 50

\* A string is the sequence of its characters.
Repeat(c, n) == [i \in 1..n |-> c]
RECURSIVE Concat(_)
Concat(ss) == IF ss = <<>> THEN <<>> ELSE ss[1] \o Concat(Tail(ss))

\* what titles are made of: words, separators, punctuation, and a word
\* one character short of max_length
TitlePieces == { <<"N", "a", "N">>, <<"a", "1">>, <<" ">>, <<"_">>, <<"-">>,
                 <<"!">>, <<"-", " ">>, Repeat("x", max_length - 1) }
\* float('nan'), what pandas gives for a missing title
NaN == [py |-> "float", s |-> <<"n", "a", "n">>]
Titles == {None, NaN}
          \cup { Str(Concat(ps)) : ps \in SeqsUpTo(TitlePieces, MaxTitlePieces) }

Letters == { "a", "b", "c", "d", "e", "f", "g", "h", "i", "j", "k", "l", "m",
             "n", "o", "p", "q", "r", "s", "t", "u", "v", "w", "x", "y", "z" }
Digits == { "0", "1", "2", "3", "4", "5", "6", "7", "8", "9" }
\* \s and _ of the pattern of line 617
Spacing == { " ", "_" }

\* str.lower() on a character
Capitals == <<"A", "B", "C", "D", "E", "F", "G", "H", "I", "J", "K", "L", "M",
              "N", "O", "P", "Q", "R", "S", "T", "U", "V", "W", "X", "Y", "Z">>
Smalls == <<"a", "b", "c", "d", "e", "f", "g", "h", "i", "j", "k", "l", "m",
            "n", "o", "p", "q", "r", "s", "t", "u", "v", "w", "x", "y", "z">>
lower_char(c) ==
    IF \E i \in 1..Len(Capitals) : Capitals[i] = c
    THEN Smalls[CHOOSE i \in 1..Len(Capitals) : Capitals[i] = c]
    ELSE c
to_lower(str) == [i \in 1..Len(str) |-> lower_char(str[i])]

\* re.sub(r'[class]+', '-', str): each run of class becomes one hyphen.
\* The first character of a run is replaced, the rest of it is deleted.
SubRuns(str, class) ==
    LET marked == [i \in 1..Len(str) |->
                      IF str[i] \notin class THEN str[i]
                      ELSE IF i > 1 /\ str[i - 1] \in class THEN "deleted"
                      ELSE "-"]
    IN  SelectSeq(marked, LAMBDA c : c # "deleted")

\* positions of the characters other than the hyphen
NotHyphen(str) == { i \in 1..Len(str) : str[i] # "-" }
Least(S) == CHOOSE i \in S : \A j \in S : i <= j
Greatest(S) == CHOOSE i \in S : \A j \in S : i >= j

\* str.lstrip('-')
lstrip(str) ==
    IF NotHyphen(str) = {} THEN <<>>
    ELSE SubSeq(str, Least(NotHyphen(str)), Len(str))
\* faulty variant of rstrip: nothing is stripped
rstrip_Keep(str) == str

\* str.rstrip('-')
rstrip(str) ==
    IF NotHyphen(str) = {} THEN <<>>
    ELSE SubSeq(str, 1, Greatest(NotHyphen(str)))

untitled == <<"u", "n", "t", "i", "t", "l", "e", "d">>

\* line 610: not text or text == '' or str(text).lower() == 'nan'
IsMissing(t) == t = None \/ t.s = <<>> \/ to_lower(t.s) = <<"n", "a", "n">>

create_slug(t) ==
    IF IsMissing(t) THEN untitled
    ELSE LET lowered == to_lower(t.s)                                 \* 614
             hyphened == SubRuns(lowered, Spacing)                    \* 617
             cleaned == SelectSeq(hyphened,                           \* 620
                            LAMBDA c : c \in Letters \cup Digits \cup {"-"})
             collapsed == SubRuns(cleaned, {"-"})                     \* 623
             stripped == rstrip(lstrip(collapsed))                    \* 626
             slug == IF Len(stripped) > max_length                    \* 629
                     THEN rstrip(SubSeq(stripped, 1, max_length))
                     ELSE stripped
         IN  IF slug = <<>> THEN untitled ELSE slug                   \* 633

\* create_slug(sl_text)
Slugify ==
    /\ sl_pc = "call"
    /\ sl_slug' = create_slug(sl_text)
    /\ sl_pc' = "once"
    /\ UNCHANGED <<sl_text, sl_again>>

\* create_slug of the slug
SlugifyAgain ==
    /\ sl_pc = "once"
    /\ sl_again' = create_slug(Str(sl_slug))
    /\ sl_pc' = "twice"
    /\ UNCHANGED <<sl_text, sl_slug>>

SlugIdle ==
    /\ sl_pc = "idle"
    /\ sl_text = None
    /\ sl_slug = <<>>
    /\ sl_again = <<>>

(***************************************************************************)
(* save_full_description (scrape_full_descriptions.py, lines 636-663)      *)
(***************************************************************************)
\* number of calls followed
MaxSaves == 2

\* texts to save: characters of one and of two bytes in UTF-8, a newline
SaveTexts == { <<>>, <<"a">>, <<"a", "\n", "é">> }
SaveYears == { 2024 }
SaveDates == { <<"0", "1", "-", "0", "5">>, <<"0", "1", "-", "1", "2">> }
SaveNumbers == { 1, 12 }
SaveTitles == { NaN, Str(<<"N", "a", "N", " ", "a", "1">>) }

\* str.encode('utf-8') of a character, as a sequence of byte values
utf8_char(c) ==
    CASE c = "a" -> <<97>>
      [] c = "\n" -> <<10>>
      [] c = "é" -> <<195, 169>>
utf8_encode(str) == Concat([i \in 1..Len(str) |-> utf8_char(str[i])])
\* bytes.decode('utf-8')
RECURSIVE utf8_decode(_)
utf8_decode(bytes) ==
    IF bytes = <<>> THEN <<>>
    ELSE IF bytes[1] = 97 THEN <<"a">> \o utf8_decode(Tail(bytes))
    ELSE IF bytes[1] = 10 THEN <<"\n">> \o utf8_decode(Tail(bytes))
    ELSE IF Len(bytes) >= 2 /\ bytes[1] = 195 /\ bytes[2] = 169
    THEN <<"é">> \o utf8_decode(Tail(Tail(bytes)))
    ELSE <<"undecodable">>

\* str(n) for a natural number
decimal_digit(d) ==
    CASE d = 0 -> "0" [] d = 1 -> "1" [] d = 2 -> "2" [] d = 3 -> "3"
      [] d = 4 -> "4" [] d = 5 -> "5" [] d = 6 -> "6" [] d = 7 -> "7"
      [] d = 8 -> "8" [] d = 9 -> "9"
RECURSIVE decimal(_)
decimal(n) ==
    IF n < 10 THEN <<decimal_digit(n)>>
    ELSE decimal(n \div 10) \o <<decimal_digit(n % 10)>>
\* f"{job_number:02d}", line 656
two_digits(n) == IF n < 10 THEN <<"0">> \o decimal(n) ELSE decimal(n)

\* 'job-descriptions', line 651
job_descriptions == <<"j", "o", "b", "-", "d", "e", "s", "c", "r", "i", "p",
                      "t", "i", "o", "n", "s">>

\* lines 651-657: the path, as the sequence of its components
file_path_of(year, date, job_number, job_title) ==
    << job_descriptions,
       decimal(year),
       date,
       two_digits(job_number) \o <<"-">> \o create_slug(job_title)
           \o <<".", "t", "x", "t">> >>

\* whether there is a file at a path, and its bytes
Exists(fs, path) == \E f \in fs : f.path = path
ReadBytes(fs, path) == (CHOOSE f \in fs : f.path = path).bytes

\* faulty variant of write_file: the file is opened for appending
write_file_Append(fs, path, bytes) ==
    IF Exists(fs, path)
    THEN (fs \ {[path |-> path, bytes |-> ReadBytes(fs, path)]})
         \cup {[path |-> path, bytes |-> ReadBytes(fs, path) \o bytes]}
    ELSE fs \cup {[path |-> path, bytes |-> bytes]}

\* lines 660-661: open(file_path, 'w', encoding='utf-8') and f.write(text)
write_file(fs, path, bytes) ==
    { f \in fs : f.path # path } \cup {[path |-> path, bytes |-> bytes]}

\* one call save_full_description(text, year, date, job_number, job_title)
SaveFullDescription(txt, year, date, job_number, job_title) ==
    /\ sv_calls < MaxSaves
    /\ LET file_path == file_path_of(year, date, job_number, job_title)
       IN  /\ files' = write_file(files, file_path, utf8_encode(txt))
           /\ sv_path' = file_path
    /\ sv_args' = [text |-> txt, year |-> year, date |-> date,
                   job_number |-> job_number, job_title |-> job_title]
    /\ sv_calls' = sv_calls + 1

SaveIdle ==
    /\ files = {}
    /\ sv_args = None
    /\ sv_path = <<>>
    /\ sv_calls = 0

(***************************************************************************)
(* scrape_governmentjobs.py: extract_with_playwright (lines 10-205)        *)
(***************************************************************************)
\* most <dd> elements of a page, and most term blocks on it
MaxDDs == 2
MaxTerms == 2

\* lines 33-78: the fields of the JSON-LD JobPosting, in the order of the
\* code, with the name written in the header and the key put in added_fields
json_ld_fields ==
    << [name |-> <<"T", "i", "t", "l", "e">>, key |-> <<"t", "i", "t", "l", "e">>],
       [name |-> <<"S", "a", "l", "a", "r", "y">>, key |-> <<"s", "a", "l", "a", "r", "y">>],
       [name |-> <<"L", "o", "c", "a", "t", "i", "o", "n">>, key |-> <<"l", "o", "c", "a", "t", "i", "o", "n">>],
       [name |-> <<"E", "m", "p", "l", "o", "y", "e", "r">>, key |-> <<"e", "m", "p", "l", "o", "y", "e", "r">>],
       [name |-> <<"E", "m", "p", "l", "o", "y", "m", "e", "n", "t", " ", "T", "y", "p", "e">>,
        key |-> <<"e", "m", "p", "l", "o", "y", "m", "e", "n", "t", " ", "t", "y", "p", "e">>],
       [name |-> <<"D", "a", "t", "e", " ", "P", "o", "s", "t", "e", "d">>,
        key |-> <<"d", "a", "t", "e", " ", "p", "o", "s", "t", "e", "d">>] >>
\* the JSON-LD fields a page of the model can hold: Title and Employer
JsonLdFound == {1, 4}

\* line 90
skip_terms ==
    { <<"S", "u", "m", "m", "a", "r", "y">>,
      <<"J", "o", "b", " ", "D", "u", "t", "i", "e", "s">>,
      <<"E", "x", "p", "e", "r", "i", "e", "n", "c", "e", ",", " ", "Q", "u", "a", "l", "i", "f", "i", "c", "a", "t", "i", "o", "n", "s">>,
      <<"S", "u", "p", "p", "l", "e", "m", "e", "n", "t", "a", "l", " ", "I", "n", "f", "o", "r", "m", "a", "t", "i", "o", "n">>,
      <<"E", "m", "p", "l", "o", "y", "e", "r">>,
      <<"A", "d", "d", "r", "e", "s", "s">>,
      <<"P", "h", "o", "n", "e">>,
      <<"W", "e", "b", "s", "i", "t", "e">> }
\* labels of the term blocks of a page (div.term-description, stripped);
\* each block has a non-empty value (div.span8)
TermNames == { <<"T", "i", "t", "l", "e">>, <<"T", "I", "T", "L", "E">>,
              <<"S", "a", "l", "a", "r", "y">>,
              <<"S", "u", "m", "m", "a", "r", "y">> }

\* line 116
benefits_keywords == {"medical", "dental", "vision", "retirement",
                      "healthcare"}

\* A <dd> element: the length of its inner text, whether that text holds one
\* of the patterns of line 182, and the benefits keywords in the text of its
\* first <ul>, if it has one.  A <ul> has two non-empty <li> items and no
\* text of more than 20 characters after it (line 154).
DD(len, contact, has_ul, ul_words) ==
    [len |-> len, contact |-> contact, has_ul |-> has_ul,
     ul_words |-> ul_words]
DDs == { DD(60, FALSE, FALSE, {}),
         DD(150, FALSE, FALSE, {}),
         DD(600, FALSE, FALSE, {}),
         DD(150, TRUE, FALSE, {}),
         DD(600, FALSE, TRUE, {"medical", "dental"}),
         DD(150, FALSE, TRUE, {"medical", "dental"}),
         DD(600, FALSE, TRUE, {"vision", "retirement"}),
         DD(600, FALSE, TRUE, {"medical"}) }
ItemsPerList == {1, 2}

\* A page: the fields of its JSON-LD JobPosting (indexes in json_ld_fields),
\* the labels of its term blocks, its <dd> elements, and whether
\* page.locator('dd').all() raises.
Pages == [json_ld : SUBSET JsonLdFound, terms : SeqsUpTo(TermNames, MaxTerms),
          dds : SeqsUpTo(DDs, MaxDDs), dd_raises : BOOLEAN]

\* The pieces of the output, with their length in characters.
\* A field "name: value" has a value of 20 characters.
Piece(kind, len, dd, n, name) ==
    [kind |-> kind, len |-> len, dd |-> dd, n |-> n, name |-> name]
DetailsLabel == Piece("=== JOB DETAILS ===", 20, 0, 0, <<>>)
Field(name) == Piece("field", Len(name) + 22, 0, 0, name)
BenefitsLabel == Piece("BENEFITS:", 10, 0, 0, <<>>)
Item(i, n) == Piece("item", 24, i, n, <<>>)
DDText(dds, i) == Piece("dd", dds[i].len, i, 0, <<>>)

\* lines 33-78: the JSON-LD fields found, in the order of the code
json_ld_found(page) ==
    SelectSeq([i \in 1..Len(json_ld_fields) |-> i],
              LAMBDA i : i \in page.json_ld)
json_ld_parts(page) ==
    [k \in 1..Len(json_ld_found(page)) |->
        Field(json_ld_fields[json_ld_found(page)[k]].name)]
json_ld_added(page) == { json_ld_fields[i].key : i \in page.json_ld }

\* line 94: the label was added before, whatever its case
AlreadyAdded_CaseSensitive(term_name, added_fields) ==
    term_name \in added_fields
AlreadyAdded(term_name, added_fields) ==
    to_lower(term_name) \in added_fields

\* lines 84-103: the fields appended for the term blocks
RECURSIVE term_block_parts(_, _)
term_block_parts(terms, added_fields) ==
    IF terms = <<>> THEN <<>>
    ELSE LET term_name == Head(terms)
         IN  IF AlreadyAdded(term_name, added_fields)
             THEN term_block_parts(Tail(terms), added_fields)
             ELSE IF term_name # <<>> /\ term_name \notin skip_terms
             THEN <<Field(term_name)>>
                  \o term_block_parts(Tail(terms),
                                      added_fields \cup {to_lower(term_name)})
             ELSE term_block_parts(Tail(terms), added_fields)

\* the fields of the header
header_fields(page) ==
    json_ld_parts(page) \o term_block_parts(page.terms, json_ld_added(page))

\* lines 108-119: the first <dd> whose list is accepted as the benefits
\* list, 0 when there is none
IsBenefitsList(d) ==
    d.has_ul /\ Cardinality(d.ul_words \cap benefits_keywords) >= 2
BenefitsDD(page) ==
    LET accepted == { i \in 1..Len(page.dds) : IsBenefitsList(page.dds[i]) }
    IN  IF page.dd_raises \/ accepted = {} THEN 0 ELSE Least(accepted)

\* lines 21-160
metadata_parts(page) ==
    <<DetailsLabel>>
    \o header_fields(page)
    \o IF BenefitsDD(page) = 0 THEN <<>>
       ELSE <<BenefitsLabel>>
            \o [n \in 1..Cardinality(ItemsPerList) |-> Item(BenefitsDD(page), n)]

\* lines 171-177: the <dd> at which the description loop stops
StopsDescription(d) ==
    d.len > 500 /\ d.has_ul /\ {"medical", "dental"} \subseteq d.ul_words
\* lines 180-185: the <dd> is collected
Collected(d) == d.len > 100 /\ ~d.contact

\* lines 163-187: indexes of the <dd> elements that make the description
description_parts(page) ==
    LET stops == { i \in 1..Len(page.dds) : StopsDescription(page.dds[i]) }
        last == IF stops = {} THEN Len(page.dds) ELSE Least(stops) - 1
    IN  SelectSeq([i \in 1..last |-> i],
                  LAMBDA i : Collected(page.dds[i]))

\* lines 191-205.  When locator('dd').all() raises, description_text is
\* never assigned and line 198 raises, which line 203 turns into None.
extract_with_playwright(page) ==
    IF page.dd_raises THEN None
    ELSE LET with_header == Len(metadata_parts(page)) > 1
             body == [k \in 1..Len(description_parts(page)) |->
                         DDText(page.dds, description_parts(page)[k])]
         IN  IF ~with_header /\ body = <<>> THEN None
             ELSE [py |-> "str",
                   metadata |-> IF with_header THEN metadata_parts(page)
                                ELSE <<>>,
                   description_label |-> with_header,
                   description |-> body]

\* len() of the text returned: '\n'.join of the metadata lines, of the
\* description label (25 characters) and of the '\n\n'.join of the body
JoinedLen(parts, sep) ==
    IF parts = <<>> THEN 0 ELSE PiecesLen(parts) + sep * (Len(parts) - 1)
CombinedLen(t) ==
    LET sections == (IF t.metadata # <<>>
                     THEN <<JoinedLen(t.metadata, 1)>> ELSE <<>>)
                    \o (IF t.description_label THEN <<25>> ELSE <<>>)
                    \o (IF t.description # <<>>
                        THEN <<JoinedLen(t.description, 2)>> ELSE <<>>)
    IN  JoinedLen([k \in 1..Len(sections) |-> [len |-> sections[k]]], 1)

\* one call extract_with_playwright(page)
ExtractWithPlaywright ==
    /\ gj_pc = "call"
    /\ gj_text' = extract_with_playwright(gj_page)
    /\ gj_pc' = "returned"
    /\ UNCHANGED gj_page

ExtractorIdle ==
    /\ gj_pc = "idle"
    /\ gj_page = None
    /\ gj_text = None

(***************************************************************************)
(* scrape_full_description (lines 467-558), called by scrape_with_retry    *)
(***************************************************************************)
\* largest max_retries of a call whose fetches are followed step by step
MaxAttempts == 2

\* A URL is text; it is kept as the sequence of its pieces, so that
\* "x in url" and str.replace work on it as they do on the string.
Url(netloc, path) == [scheme |-> "https://", netloc |-> netloc, path |-> path]
Urls ==
    { Url(<<"www.", "governmentjobs.com">>, <<"/careers/county/jobs/1">>),
      Url(<<"agency.", "applicantpro.com">>, <<"/jobs/1">>),
      Url(<<"county.example.gov">>, <<"/jobs/1">>),
      Url(<<"county.example.gov">>, <<"/go?to=", "governmentjobs.com">>) }
UrlText(u) == <<u.scheme>> \o u.netloc \o u.path

\* Python's "sub in s"
Contains(s, sub) ==
    \E i \in 1..(Len(s) - Len(sub) + 1) : SubSeq(s, i, i + Len(sub) - 1) = sub

\* lines 33-38
JS_REQUIRED_DOMAINS == { <<"governmentjobs.com">>, <<"neogov.com">>,
                         <<"paycomonline.net">>, <<"applicantpro.com">> }
\* faulty variant of needs_javascript: knows one domain only
needs_javascript_GovOnly(u) == Contains(u.netloc, <<"governmentjobs.com">>)

\* lines 84-89
needs_javascript(u) ==
    LET domain == SelectSeq(u.netloc, LAMBDA piece : piece # "www.")
    IN  \E js_domain \in JS_REQUIRED_DOMAINS : Contains(domain, js_domain)

\* line 482: 'governmentjobs.com' in url
GovernmentJobsInUrl(u) == Contains(UrlText(u), <<"governmentjobs.com">>)

\* a job description, a privacy notice, and a job title on its own
JobText == Str(<<Word("position"), Word("salary"), Word("required"),
                 Prose(500)>>)
GenericText == Str(<<Word("privacy policy"), Word("gdpr"), Prose(500)>>)
ShortText == Str(<<Word("position")>>)

\* What a page or a response holds: HTML from which trafilatura extracts a
\* job description, a generic text (privacy notice, error page), a text of
\* a few words, or nothing
Content == {"job", "generic", "short", "empty"}
\* trafilatura.extract(downloaded), lines 533, 547
trafilatura_extract(html) ==
    CASE html.s = "job" -> JobText
      [] html.s = "generic" -> GenericText
      [] html.s = "short" -> ShortText
      [] html.s = "empty" -> None
\* what scrape_governmentjobs.extract_with_playwright returns: text or None
GovText == {None, JobText}

\* One entry of ops: the operation, who performs it, whether it returned
\* (TRUE) or raised / returned nothing (FALSE), and the attempt it is in
Op(op, by, ok) == [op |-> op, by |-> by, ok |-> ok, attempt |-> attempt]

\* Where the page operations of one fetch stop: nowhere, in new_page, in
\* goto / wait / reading the page, or in the page.close() of the normal path
PageFail == {"none", "new_page", "goto", "close"}
\* faulty variant of OnPageError: the page is left open
OnPageError_LeaveOpen(by) == <<>>

\* the except branch once a page exists: lines 157-161 and 500-505
OnPageError(by) == <<Op("close", by, TRUE)>>

\* the page operations of lines 107-153 and 486-495; read is what is done
\* with the loaded page (page.content() or the specialized extractor)
PageOps(by, fail_at, read) ==
    CASE fail_at = "new_page" -> <<Op("new_page", by, FALSE)>>
      [] fail_at = "goto" ->
           <<Op("new_page", by, TRUE), Op("goto", by, FALSE)>>
           \o OnPageError(by)
      [] fail_at = "close" ->
           <<Op("new_page", by, TRUE), Op("goto", by, TRUE)>> \o read
           \o <<Op("close", by, FALSE)>> \o OnPageError(by)
      [] fail_at = "none" ->
           <<Op("new_page", by, TRUE), Op("goto", by, TRUE)>> \o read
           \o <<Op("close", by, TRUE)>>

\* scrape_with_browser, lines 92-162: what it does (why: the call site) ...
scrape_with_browser_ops(why, browser_ok, fail_at) ==
    <<Op("scrape_with_browser", why, browser_ok)>>
    \o IF browser_ok
       THEN PageOps("scrape_with_browser", fail_at,
                    <<Op("content", "scrape_with_browser", TRUE)>>)
       ELSE <<>>
\* ... and what it returns
scrape_with_browser(browser_ok, fail_at, html) ==
    IF browser_ok /\ fail_at = "none" THEN Str(html) ELSE None

\* faulty variant of UsedBrowserAfterFallback: the flag is not set
UsedBrowserAfterFallback_Unset == FALSE
\* line 528: used_browser = True after the fallback of a failed static GET
UsedBrowserAfterFallback == TRUE

\* lines 476-509: can_fetch (always True, lines 235-259), then the
\* governmentjobs.com branch, which returns the specialized text or falls
\* through to the standard approach
FetchEntry(launch, fail_at, gtext) ==
    /\ f_pc = "entry"
    /\ r_pc = "loop"
    /\ attempt < max_retries
    /\ IF GovernmentJobsInUrl(url)
       THEN /\ GetBrowser(launch)
            /\ LET browser_ok == last_call'.ret # NoHandle
                   got == browser_ok /\ fail_at = "none" /\ gtext # None
               IN  /\ ops' = <<Op("get_browser", "governmentjobs", browser_ok)>>
                             \o IF browser_ok
                                THEN PageOps("governmentjobs", fail_at,
                                         <<Op("extract", "scrape_governmentjobs",
                                              gtext # None)>>)
                                ELSE <<>>
                   /\ f_pc' = IF got THEN "return" ELSE "standard"
                   /\ ret' = IF got THEN gtext ELSE None
       ELSE /\ ops' = <<>>
            /\ f_pc' = "standard"
            /\ ret' = None
            /\ UNCHANGED browser_vars
    /\ downloaded' = None
    /\ used_browser' = FALSE
    /\ text' = None
    /\ UNCHANGED <<url, escalations>>

\* lines 511-532: the download
FetchDownload(launch, fail_at, html, get_ok) ==
    /\ f_pc = "standard"
    /\ IF needs_javascript(url)
       THEN /\ GetBrowser(launch)
            /\ LET browser_ok == last_call'.ret # NoHandle
               IN  /\ ops' = ops \o scrape_with_browser_ops("needs_javascript",
                                                           browser_ok, fail_at)
                   /\ downloaded' = scrape_with_browser(browser_ok, fail_at, html)
            /\ used_browser' = TRUE
       ELSE IF get_ok
       THEN /\ ops' = Append(ops, Op("get", "requests", TRUE))
            /\ downloaded' = Str(html)
            /\ used_browser' = FALSE
            /\ UNCHANGED browser_vars
       ELSE /\ GetBrowser(launch)
            /\ LET browser_ok == last_call'.ret # NoHandle
               IN  /\ ops' = Append(ops, Op("get", "requests", FALSE))
                             \o scrape_with_browser_ops("static_failure",
                                                        browser_ok, fail_at)
                   /\ downloaded' = scrape_with_browser(browser_ok, fail_at, html)
            /\ used_browser' = UsedBrowserAfterFallback
    /\ f_pc' = IF downloaded' = None THEN "return" ELSE "extract"
    /\ ret' = None
    /\ UNCHANGED <<url, text, escalations>>

\* lines 534-542, 552-554: extraction and the quality test
FetchExtract ==
    /\ f_pc = "extract"
    /\ text' = trafilatura_extract(downloaded)
    /\ ops' = Append(ops, Op("extract", "trafilatura", text' # None))
    /\ IF text' = None
       THEN f_pc' = "return" /\ ret' = None
       ELSE IF is_generic_content(text')
       THEN /\ f_pc' = IF used_browser THEN "return" ELSE "escalate"
            /\ ret' = None
       ELSE f_pc' = "return" /\ ret' = text'
    /\ UNCHANGED <<url, downloaded, used_browser, escalations>>
    /\ UNCHANGED browser_vars

\* faulty variant of EscalationResult: the second text is not tested
EscalationResult_Unchecked(d, t) ==
    IF d # None /\ t # None THEN t ELSE None

\* lines 546-553: the text of the second download is returned when there is
\* one and it is not generic
EscalationResult(d, t) ==
    IF d # None /\ t # None /\ ~is_generic_content(t) THEN t ELSE None

\* lines 543-552: generic content from a static GET, retried with the browser
FetchEscalate(launch, fail_at, html) ==
    /\ f_pc = "escalate"
    /\ GetBrowser(launch)
    /\ LET browser_ok == last_call'.ret # NoHandle
           d == scrape_with_browser(browser_ok, fail_at, html)
           t == IF d # None THEN trafilatura_extract(d) ELSE text
       IN  /\ downloaded' = d
           /\ text' = t
           /\ ops' = ops \o scrape_with_browser_ops("escalation", browser_ok,
                                                   fail_at)
                     \o IF d # None
                        THEN <<Op("extract", "trafilatura", t # None)>>
                        ELSE <<>>
           /\ ret' = EscalationResult(d, t)
    /\ f_pc' = "return"
    /\ escalations' = escalations + 1
    /\ UNCHANGED <<url, used_browser>>

\* An exception raised by a statement of the outer try block that has no
\* handler of its own: urlparse in needs_javascript (line 516), or
\* trafilatura.extract or is_generic_content (lines 533, 540)
Raised(e) == [py |-> "exception", msg |-> e]
\* faulty variant of OnException: the exception leaves the function
OnException_Propagate(e) == Raised(e)

\* lines 556-558: except Exception, return None
OnException(e) == None

\* a statement of the outer try block raises
FetchRaise(e) ==
    /\ f_pc \in {"standard", "extract"}
    /\ ops' = Append(ops, Op("raise",
                             IF f_pc = "standard" THEN "urlparse"
                             ELSE "trafilatura", FALSE))
    /\ ret' = OnException(e)
    /\ f_pc' = "return"
    /\ UNCHANGED <<url, downloaded, used_browser, text, escalations>>
    /\ UNCHANGED browser_vars

\* what scrape_with_retry receives from the call (line 574): the value
\* returned, or the exception that left the call
Returned_Outcome(v) ==
    IF v = None THEN [kind |-> "none"]
    ELSE IF v.py = "exception" THEN [kind |-> "other", msg |-> v.msg]
    ELSE [kind |-> "text", text |-> v.s]

\* the call returns into the loop of scrape_with_retry, lines 574-581
FetchReturn ==
    /\ f_pc = "return"
    /\ RetryAttempt(Returned_Outcome(ret))
    /\ f_pc' = IF r_pc' = "loop" THEN "entry" ELSE "idle"
    /\ UNCHANGED <<url, downloaded, used_browser, text, ret, ops, escalations>>
    /\ UNCHANGED browser_vars

FetchIdle ==
    /\ f_pc = "idle"
    /\ url = None
    /\ downloaded = None
    /\ used_browser = FALSE
    /\ text = None
    /\ ret = None
    /\ ops = <<>>
    /\ escalations = 0

(***************************************************************************)
(* scrape_new_jobs (scrape_full_descriptions.py, lines 666-741)            *)
(***************************************************************************)
\* f"{row['year']}-{row['date']}" of the records of one call
DateKeys == {"2024-01-05", "2024-01-12"}

\* A record of the argument carries what scrape_new_jobs reads of it: the
\* link ("http" passes the test of line 700, "bad" fails it) and the date.
NewJob == [link : {"http", "bad"}, date_key : DateKeys]

\* The path returned by save_full_description: directory and NN- prefix
FilePath(date_key, job_number) ==
    [py |-> "path", date_key |-> date_key, job_number |-> job_number]

\* lines 684-693: the four full_text_* columns are created as None; an
\* empty DataFrame is returned at once
NJStart ==
    /\ nj_pc = "start"
    /\ nj_df' = [i \in 1..Len(nj_df) |->
                    [link |-> nj_df[i].link, date_key |-> nj_df[i].date_key,
                     full_text_file |-> None]]
    /\ date_counters' = [d \in DateKeys |-> 0]
    /\ nj_idx' = 1
    /\ nj_pc' = IF Len(nj_df) = 0 THEN "returned" ELSE "loop"
    /\ UNCHANGED nj_files

\* lines 699-701
NJSkipInvalid ==
    /\ nj_pc = "loop"
    /\ nj_idx <= Len(nj_df)
    /\ nj_df[nj_idx].link = "bad"
    /\ nj_idx' = nj_idx + 1
    /\ UNCHANGED <<nj_pc, nj_df, date_counters, nj_files>>

\* How lines 712-722 end for one record: the file is saved, scrape_with_retry
\* returns no text, or save_full_description raises (OSError)
NJOutcome == {"saved", "scrape_failed", "save_raised"}

\* lines 703-709: the job number of the record, taken before it is scraped
NextJobNumber(counters, date_key) == counters[date_key] + 1

\* lines 703-736 for a record with a valid link
NJScrape(outcome) ==
    /\ nj_pc = "loop"
    /\ nj_idx <= Len(nj_df)
    /\ nj_df[nj_idx].link = "http"
    /\ LET date_key == nj_df[nj_idx].date_key
           job_number == NextJobNumber(date_counters, date_key)
       IN  /\ date_counters' = [date_counters EXCEPT ![date_key] = job_number]
           /\ CASE outcome = "saved" ->
                     /\ nj_files' = Append(nj_files,
                                           FilePath(date_key, job_number))
                     /\ nj_df' = [nj_df EXCEPT ![nj_idx].full_text_file =
                                      FilePath(date_key, job_number)]
                     /\ nj_pc' = "loop"
                [] outcome = "scrape_failed" ->
                     /\ nj_pc' = "loop"
                     /\ UNCHANGED <<nj_df, nj_files>>
                [] outcome = "save_raised" ->
                     \* line 721 is in no try block: the exception leaves
                     \* the loop and the function
                     /\ nj_pc' = "raised"
                     /\ UNCHANGED <<nj_df, nj_files>>
    /\ nj_idx' = nj_idx + 1

\* lines 738-741: the loop is over
NJReturn(close, stop) ==
    /\ nj_pc = "loop"
    /\ nj_idx > Len(nj_df)
    /\ CloseBrowser(close, stop)
    /\ nj_pc' = "returned"
    /\ UNCHANGED <<nj_df, nj_idx, date_counters, nj_files>>

NewJobsIdle ==
    /\ nj_pc = "idle"
    /\ nj_df = <<>>
    /\ nj_idx = 0
    /\ date_counters = [d \in DateKeys |-> 0]
    /\ nj_files = <<>>

(***************************************************************************)
(* backfill_full_descriptions.py: main, job numbers and description files  *)
(* (lines 44-167).  The same loop as above, seen with the date and title   *)
(* of each record; scrape_with_retry is a choice of outcome, and the batch *)
(* save of lines 147-151 is one step.                                      *)
(***************************************************************************)
\* longest record store, and number of runs of main
MaxStore == 3
MaxBackfills == 2

Clerk == <<"C", "l", "e", "r", "k">>
\* titles of the records: two titles with the same slug, and a missing one
JobTitles == { Str(Clerk), Str(to_lower(Clerk) \o <<"!">>), NaN }
\* a record of a dataset.csv that no run has enriched yet
StoreRecord == [link : {"http", "bad"}, date : SaveDates,
                job_title : JobTitles, full_text_file : {None}]

\* lines 114-117: row.get('job_title', ''), '' when it is NaN
job_title_of(row) ==
    IF row.job_title = NaN THEN Str(<<>>) ELSE row.job_title

\* lines 44-81: read dataset.csv and the checkpoint, fresh date_counters
BNStart ==
    /\ bn_pc \in {"idle", "done", "raised", "stopped"}
    /\ bn_runs < MaxBackfills
    /\ bn_runs' = bn_runs + 1
    /\ bn_df' = bn_csv
    /\ bn_idx' = StartRow([last_completed_row |-> bn_checkpoint])
    /\ bn_date_counters' = [d \in SaveDates |-> 0]
    /\ bn_rows_processed' = 0
    /\ bn_pc' = "loop"
    /\ UNCHANGED <<bn_csv, bn_checkpoint, bn_writes>>

BNInLoop == bn_pc = "loop" /\ bn_idx < Len(bn_df)

\* lines 86-89
BNSkipScraped ==
    /\ BNInLoop
    /\ bn_df[bn_idx + 1].full_text_file # None
    /\ bn_idx' = bn_idx + 1
    /\ UNCHANGED <<bn_pc, bn_csv, bn_checkpoint, bn_df, bn_date_counters,
                   bn_rows_processed, bn_runs, bn_writes>>

\* lines 93-97
BNSkipInvalid ==
    /\ BNInLoop
    /\ bn_df[bn_idx + 1].full_text_file = None
    /\ InvalidUrl(bn_df[bn_idx + 1])
    /\ bn_rows_processed' = bn_rows_processed + 1
    /\ bn_idx' = bn_idx + 1
    /\ UNCHANGED <<bn_pc, bn_csv, bn_checkpoint, bn_df, bn_date_counters,
                   bn_runs, bn_writes>>

\* lines 99-152 for a record with a valid link
BNScrapeRow(outcome) ==
    /\ BNInLoop
    /\ bn_df[bn_idx + 1].full_text_file = None
    /\ ~InvalidUrl(bn_df[bn_idx + 1])
    /\ LET row == bn_df[bn_idx + 1]
           job_number == NextJobNumber(bn_date_counters, row.date)
           file_path == file_path_of(2024, row.date, job_number,
                                     job_title_of(row))
       IN  /\ bn_date_counters' =
                  [bn_date_counters EXCEPT ![row.date] = job_number]
           /\ IF outcome = "ok"
              THEN /\ bn_writes' = bn_writes
                          \cup {[path |-> file_path, row |-> bn_idx]}
                   /\ bn_df' = [bn_df EXCEPT ![bn_idx + 1].full_text_file =
                                                 file_path]
              ELSE UNCHANGED <<bn_writes, bn_df>>
    /\ bn_rows_processed' = bn_rows_processed + 1
    /\ IF BatchDue(bn_rows_processed')
       THEN bn_checkpoint' = bn_idx /\ bn_csv' = bn_df'
       ELSE UNCHANGED <<bn_checkpoint, bn_csv>>
    /\ bn_idx' = bn_idx + 1
    /\ UNCHANGED <<bn_pc, bn_runs>>

\* lines 154-167: the summary, which divides by rows_processed, the final
\* save and the removal of the checkpoint
BNFinish ==
    /\ bn_pc = "loop"
    /\ bn_idx >= Len(bn_df)
    /\ IF bn_rows_processed = 0
       THEN bn_pc' = "raised" /\ UNCHANGED <<bn_csv, bn_checkpoint>>
       ELSE bn_pc' = "done" /\ bn_csv' = bn_df /\ bn_checkpoint' = -1
    /\ UNCHANGED <<bn_df, bn_idx, bn_date_counters, bn_rows_processed,
                   bn_runs, bn_writes>>

\* the run is terminated between two iterations; the files stay
BNStop ==
    /\ bn_pc = "loop"
    /\ bn_pc' = "stopped"
    /\ UNCHANGED <<bn_csv, bn_checkpoint, bn_df, bn_idx, bn_date_counters,
                   bn_rows_processed, bn_runs, bn_writes>>

NumberingIdle ==
    /\ bn_pc = "idle"
    /\ bn_csv = <<>>
    /\ bn_checkpoint = -1
    /\ bn_df = <<>>
    /\ bn_idx = 0
    /\ bn_date_counters = [d \in SaveDates |-> 0]
    /\ bn_rows_processed = 0
    /\ bn_runs = 0
    /\ bn_writes = {}

PureIdle ==
    /\ ClassifierIdle
    /\ SlugIdle
    /\ SaveIdle
    /\ ExtractorIdle
    /\ NumberingIdle

(***************************************************************************)
(* Specifications                                                          *)
(***************************************************************************)
\* Backfill: any record store, no checkpoint; runs of main, abrupt
\* terminations and restarts.
Init ==
    /\ dataset_csv \in SeqsUpTo(Record, MaxRows)
    /\ BackfillIdle
    /\ RetryIdle
    /\ BrowserIdle
    /\ NewJobsIdle
    /\ FetchIdle
    /\ PureIdle

Next ==
    \/ StartMain /\ NewProcess
       /\ UNCHANGED <<retry_vars, newjobs_vars, fetch_vars, pure_vars>>
    \/ SkipScraped
       /\ UNCHANGED <<retry_vars, browser_vars, newjobs_vars, fetch_vars, pure_vars>>
    \/ SkipInvalid
       /\ UNCHANGED <<retry_vars, browser_vars, newjobs_vars, fetch_vars, pure_vars>>
    \/ \E outcome \in ScrapeOutcome, b \in BrowserUse :
           ScrapeRow(outcome) /\ UseBrowser(b)
           /\ UNCHANGED <<retry_vars, newjobs_vars, fetch_vars, pure_vars>>
    \/ SaveCheckpointOpen
       /\ UNCHANGED <<retry_vars, browser_vars, newjobs_vars, fetch_vars, pure_vars>>
    \/ SaveCheckpointDump
       /\ UNCHANGED <<retry_vars, browser_vars, newjobs_vars, fetch_vars, pure_vars>>
    \/ ToCsv
       /\ UNCHANGED <<retry_vars, browser_vars, newjobs_vars, fetch_vars, pure_vars>>
    \/ LoopEnd
       /\ UNCHANGED <<retry_vars, browser_vars, newjobs_vars, fetch_vars, pure_vars>>
    \/ Summary
       /\ UNCHANGED <<retry_vars, browser_vars, newjobs_vars, fetch_vars, pure_vars>>
    \/ FinalSave
       /\ UNCHANGED <<retry_vars, browser_vars, newjobs_vars, fetch_vars, pure_vars>>
    \/ RemoveCheckpoint
       /\ UNCHANGED <<retry_vars, browser_vars, newjobs_vars, fetch_vars, pure_vars>>
    \/ Crash
       /\ UNCHANGED <<retry_vars, browser_vars, newjobs_vars, fetch_vars, pure_vars>>
    \/ Interrupt
       /\ UNCHANGED <<retry_vars, browser_vars, newjobs_vars, fetch_vars, pure_vars>>

Spec == Init /\ [][Next]_vars

\* One call scrape_with_retry(url, max_retries) against any fetch.
RetryInit ==
    /\ dataset_csv = <<>>
    /\ BackfillIdle
    /\ BrowserIdle
    /\ NewJobsIdle
    /\ FetchIdle
    /\ PureIdle
    /\ r_pc = "loop"
    /\ max_retries \in 0..MaxRetriesArg
    /\ attempt = 0
    /\ events = <<>>
    /\ result = <<>>

RetryNext ==
    \/ \E o \in FetchOutcome :
           RetryAttempt(o) /\ UNCHANGED <<backfill_vars, browser_vars, newjobs_vars, fetch_vars,
                                          pure_vars>>
    \/ RetryExhausted
       /\ UNCHANGED <<backfill_vars, browser_vars, newjobs_vars, fetch_vars, pure_vars>>

RetrySpec == RetryInit /\ [][RetryNext]_vars

\* Any sequence of get_browser and close_browser calls in one process.
BrowserInit ==
    /\ dataset_csv = <<>>
    /\ BackfillIdle
    /\ RetryIdle
    /\ BrowserIdle
    /\ NewJobsIdle
    /\ FetchIdle
    /\ PureIdle

BrowserNext ==
    \/ \E outcome \in LaunchOutcome :
           GetBrowser(outcome) /\ UNCHANGED <<backfill_vars, retry_vars, newjobs_vars, fetch_vars,
                                              pure_vars>>
    \/ \E close \in CloseOutcome, stop \in CloseOutcome :
           CloseBrowser(close, stop) /\ UNCHANGED <<backfill_vars, retry_vars, newjobs_vars, fetch_vars,
                                                    pure_vars>>

BrowserSpec == BrowserInit /\ [][BrowserNext]_vars

\* One call scrape_new_jobs(df) on any DataFrame of new records.
NewJobsInit ==
    /\ dataset_csv = <<>>
    /\ BackfillIdle
    /\ RetryIdle
    /\ BrowserIdle
    /\ FetchIdle
    /\ PureIdle
    /\ nj_pc = "start"
    /\ nj_df \in SeqsUpTo(NewJob, MaxNewJobs)
    /\ nj_idx = 0
    /\ date_counters = [d \in DateKeys |-> 0]
    /\ nj_files = <<>>

NewJobsNext ==
    \/ NJStart
       /\ UNCHANGED <<backfill_vars, retry_vars, browser_vars, fetch_vars, pure_vars>>
    \/ NJSkipInvalid
       /\ UNCHANGED <<backfill_vars, retry_vars, browser_vars, fetch_vars, pure_vars>>
    \/ \E outcome \in NJOutcome, b \in BrowserUse :
           NJScrape(outcome) /\ UseBrowser(b)
           /\ UNCHANGED <<backfill_vars, retry_vars, fetch_vars, pure_vars>>
    \/ \E close \in CloseOutcome, stop \in CloseOutcome :
           NJReturn(close, stop)
           /\ UNCHANGED <<backfill_vars, retry_vars, fetch_vars, pure_vars>>

NewJobsSpec == NewJobsInit /\ [][NewJobsNext]_vars

\* One call scrape_with_retry(url, max_retries) whose fetches are calls of
\* scrape_full_description, for any url and any behaviour of the network,
\* the browser and the pages.
ScrapeInit ==
    /\ dataset_csv = <<>>
    /\ BackfillIdle
    /\ BrowserIdle
    /\ NewJobsIdle
    /\ PureIdle
    /\ r_pc = "loop"
    /\ max_retries \in 0..MaxAttempts
    /\ attempt = 0
    /\ events = <<>>
    /\ result = <<>>
    /\ f_pc = "entry"
    /\ url \in Urls
    /\ downloaded = None
    /\ used_browser = FALSE
    /\ text = None
    /\ ret = None
    /\ ops = <<>>
    /\ escalations = 0

ScrapeNext ==
    \/ \E launch \in LaunchOutcome, fail_at \in PageFail, gtext \in GovText :
           FetchEntry(launch, fail_at, gtext)
           /\ UNCHANGED <<backfill_vars, retry_vars, newjobs_vars, pure_vars>>
    \/ \E launch \in LaunchOutcome, fail_at \in PageFail, html \in Content,
          get_ok \in BOOLEAN :
           FetchDownload(launch, fail_at, html, get_ok)
           /\ UNCHANGED <<backfill_vars, retry_vars, newjobs_vars, pure_vars>>
    \/ FetchExtract
       /\ UNCHANGED <<backfill_vars, retry_vars, newjobs_vars, pure_vars>>
    \/ \E launch \in LaunchOutcome, fail_at \in PageFail, html \in Content :
           FetchEscalate(launch, fail_at, html)
           /\ UNCHANGED <<backfill_vars, retry_vars, newjobs_vars, pure_vars>>
    \/ \E e \in Messages :
           FetchRaise(e)
           /\ UNCHANGED <<backfill_vars, retry_vars, newjobs_vars, pure_vars>>
    \/ FetchReturn /\ UNCHANGED <<backfill_vars, newjobs_vars, pure_vars>>
    \/ RetryExhausted
       /\ UNCHANGED <<backfill_vars, browser_vars, newjobs_vars, fetch_vars,
                      pure_vars>>

ScrapeSpec == ScrapeInit /\ [][ScrapeNext]_vars

\* One call is_generic_content(text) on any text.
ClassifierInit ==
    /\ dataset_csv = <<>>
    /\ BackfillIdle
    /\ RetryIdle
    /\ BrowserIdle
    /\ NewJobsIdle
    /\ FetchIdle
    /\ cl_pc = "call"
    /\ cl_text \in {None} \cup { Str(s) : s \in SeqsUpTo(TextPieces, MaxPieces) }
    /\ cl_result = FALSE
    /\ SlugIdle
    /\ SaveIdle
    /\ ExtractorIdle
    /\ NumberingIdle

ClassifierNext ==
    Classify /\ UNCHANGED <<backfill_vars, retry_vars, browser_vars,
                            newjobs_vars, fetch_vars, slug_vars,
                            save_vars, extractor_vars,
                   numbering_vars>>

ClassifierSpec == ClassifierInit /\ [][ClassifierNext]_vars

\* create_slug on any title, and again on its result.
SlugInit ==
    /\ dataset_csv = <<>>
    /\ BackfillIdle
    /\ RetryIdle
    /\ BrowserIdle
    /\ NewJobsIdle
    /\ FetchIdle
    /\ ClassifierIdle
    /\ sl_pc = "call"
    /\ sl_text \in Titles
    /\ sl_slug = <<>>
    /\ sl_again = <<>>
    /\ SaveIdle
    /\ ExtractorIdle
    /\ NumberingIdle

SlugNext ==
    \/ Slugify /\ UNCHANGED <<backfill_vars, retry_vars, browser_vars,
                              newjobs_vars, fetch_vars, classifier_vars,
                              save_vars, extractor_vars,
                   numbering_vars>>
    \/ SlugifyAgain /\ UNCHANGED <<backfill_vars, retry_vars, browser_vars,
                                   newjobs_vars, fetch_vars, classifier_vars,
                                   save_vars, extractor_vars,
                   numbering_vars>>

SlugSpec == SlugInit /\ [][SlugNext]_vars

\* Calls of save_full_description on an empty job-descriptions directory.
SaveInit ==
    /\ dataset_csv = <<>>
    /\ BackfillIdle
    /\ RetryIdle
    /\ BrowserIdle
    /\ NewJobsIdle
    /\ FetchIdle
    /\ PureIdle

SaveNext ==
    \E txt \in SaveTexts, year \in SaveYears, date \in SaveDates,
       job_number \in SaveNumbers, job_title \in SaveTitles :
        SaveFullDescription(txt, year, date, job_number, job_title)
        /\ UNCHANGED <<backfill_vars, retry_vars, browser_vars, newjobs_vars,
                       fetch_vars, classifier_vars, slug_vars,
                       extractor_vars, numbering_vars>>

SaveSpec == SaveInit /\ [][SaveNext]_vars

\* One call extract_with_playwright(page) on any page.
ExtractorInit ==
    /\ dataset_csv = <<>>
    /\ BackfillIdle
    /\ RetryIdle
    /\ BrowserIdle
    /\ NewJobsIdle
    /\ FetchIdle
    /\ ClassifierIdle
    /\ SlugIdle
    /\ SaveIdle
    /\ gj_pc = "call"
    /\ gj_page \in Pages
    /\ gj_text = None
    /\ NumberingIdle

ExtractorNext ==
    ExtractWithPlaywright
    /\ UNCHANGED <<backfill_vars, retry_vars, browser_vars, newjobs_vars,
                   fetch_vars, classifier_vars, slug_vars, save_vars,
                   numbering_vars>>

ExtractorSpec == ExtractorInit /\ [][ExtractorNext]_vars

\* Runs of main on a record store that no run has enriched yet, seen with
\* the job numbers and the description files.
NumberingInit ==
    /\ dataset_csv = <<>>
    /\ BackfillIdle
    /\ RetryIdle
    /\ BrowserIdle
    /\ NewJobsIdle
    /\ FetchIdle
    /\ ClassifierIdle
    /\ SlugIdle
    /\ SaveIdle
    /\ ExtractorIdle
    /\ bn_pc = "idle"
    /\ bn_csv \in SeqsUpTo(StoreRecord, MaxStore)
    /\ bn_checkpoint = -1
    /\ bn_df = <<>>
    /\ bn_idx = 0
    /\ bn_date_counters = [d \in SaveDates |-> 0]
    /\ bn_rows_processed = 0
    /\ bn_runs = 0
    /\ bn_writes = {}

NumberingNext ==
    /\ \/ BNStart
       \/ BNSkipScraped
       \/ BNSkipInvalid
       \/ \E outcome \in ScrapeOutcome : BNScrapeRow(outcome)
       \/ BNFinish
       \/ BNStop
    /\ UNCHANGED <<backfill_vars, retry_vars, browser_vars, newjobs_vars,
                   fetch_vars, classifier_vars, slug_vars, save_vars,
                   extractor_vars>>

NumberingSpec == NumberingInit /\ [][NumberingNext]_vars

(***************************************************************************)
(* Claims on the backfill run (Spec)                                       *)
(***************************************************************************)
\* the run in progress (or the last one) loaded a complete checkpoint
Resumed == run > 0 /\ loaded.state = "complete"
\* the loop of the current run ran to its end
LoopFinished ==
    \/ pc \in {"summary", "final_save", "cleanup", "done"}
    \/ pc = "raised" /\ Readable(loaded)

\* C1: a run resumed from a checkpoint at index k over n > k records visits
\* exactly k+1..n-1, in increasing index order, and does not fetch, save or
\* modify any record 0..k (in memory or in dataset.csv).
C1_CheckpointResume ==
    (Resumed /\ Len(df0) > loaded.last_completed_row) =>
        LET k == loaded.last_completed_row
            n == Len(df0)
        IN  /\ \A i \in 1..Len(visited) : visited[i] = k + i
            /\ Len(visited) <= n - 1 - k
            /\ LoopFinished => Len(visited) = n - 1 - k
            /\ (fetched \cup saved) \subseteq (k + 1)..(n - 1)
            /\ \A i \in 0..k : /\ df[i + 1] = df0[i + 1]
                               /\ dataset_csv[i + 1] = df0[i + 1]

\* a resumed run has scraped a record after the checkpoint and finished
C1_Witness ==
    /\ Resumed
    /\ pc = "done"
    /\ loaded.last_completed_row >= 1
    /\ fetched # {}
    /\ Len(visited) >= 1

\* C2: at every iteration boundary of a run, fewer than BATCH_SIZE processed
\* records are not yet covered by a persisted checkpoint and record store.
C2_BatchCadence == pc = "loop" => unsaved < BATCH_SIZE

\* C3: after an abrupt termination the checkpoint file is absent or holds a
\* complete checkpoint, and the next run's load_checkpoint reads it.
C3_AtomicCheckpoint ==
    /\ pc = "crashed" => Readable(checkpoint_file)
    /\ (run > 0 /\ prev_end = "crashed") => Readable(loaded)

\* C4: a run with no checkpoint file starts at index 0, a run with a
\* checkpoint at index i starts at i+1, a completed run leaves no checkpoint
\* file, and the run after a completed run starts at index 0.
C4_RunStartAndCompletion ==
    /\ (run > 0 /\ loaded.state = "absent") => start_row = 0
    /\ Resumed => start_row = loaded.last_completed_row + 1
    /\ (run > 0 /\ Readable(loaded) /\ visited # <<>>) => visited[1] = start_row
    /\ pc = "done" => checkpoint_file = NoFile
    /\ (run > 0 /\ prev_end = "done") => (loaded = NoFile /\ start_row = 0)

\* after a completed run, the next run found no checkpoint file, started at
\* index 0 and entered record 0
C4_Witness ==
    /\ run >= 2
    /\ prev_end = "done"
    /\ loaded = NoFile
    /\ start_row = 0
    /\ visited # <<>>
    /\ visited[1] = 0

(***************************************************************************)
(* Claims on scrape_with_retry (RetrySpec)                                 *)
(***************************************************************************)
Fetches == SelectSeq(events, LAMBDA e : e.ev = "fetch")
Sleeps == SelectSeq(events, LAMBDA e : e.ev = "sleep")
Returned == r_pc = "returned"
LastEventIsFetch == events # <<>> /\ events[Len(events)].ev = "fetch"
\* the fetch failed retryably on attempts 1..j-1
RetryableBefore(j) == \A i \in 1..(j - 1) : Retryable(Fetches[i].outcome)

\* C5: a fetch that raises an exception that is neither a timeout nor a
\* request error is invoked once, no sleep happens, and the pair returned is
\* (None, str(e)), not "Max retries exceeded"; on a later attempt such an
\* exception ends the loop at once in the same way.
C5_TerminalError ==
    /\ (Fetches # <<>> /\ Fetches[1].outcome.kind = "other") =>
           /\ Returned
           /\ Len(Fetches) = 1
           /\ Sleeps = <<>>
           /\ result = <<None, Str(Fetches[1].outcome.msg)>>
           /\ result # ExhaustedResult
    /\ \A j \in 1..Len(Fetches) :
           Fetches[j].outcome.kind = "other" =>
               /\ Returned
               /\ j = Len(Fetches)
               /\ LastEventIsFetch
               /\ result = <<None, Str(Fetches[j].outcome.msg)>>

\* the first call raised a terminal exception, with retries available
C5_Witness ==
    /\ Returned
    /\ max_retries = 3
    /\ Fetches # <<>>
    /\ Fetches[1].outcome = [kind |-> "other", msg |-> "boom"]

\* C6: when attempts 1..j-1 fail retryably and attempt j returns a text, the
\* fetch is invoked exactly j times, there are exactly j-1 sleeps (one after
\* each failed attempt) of strictly increasing duration, nothing happens
\* after the success, and (text, None) is returned.
C6_SuccessShortCircuit ==
    \A j \in 1..Len(Fetches) :
        (Success(Fetches[j].outcome) /\ RetryableBefore(j)) =>
            /\ j <= max_retries
            /\ Returned
            /\ Len(Fetches) = j
            /\ Len(Sleeps) = j - 1
            /\ Len(events) = 2 * j - 1
            /\ \A i \in 1..(j - 1) : /\ events[2 * i - 1].ev = "fetch"
                                     /\ events[2 * i].ev = "sleep"
            /\ \A i \in 1..(j - 2) : Sleeps[i].seconds < Sleeps[i + 1].seconds
            /\ LastEventIsFetch
            /\ result = <<Str(Fetches[j].outcome.text), None>>

\* timeout, timeout, success: returned on the third attempt after two sleeps
C6_Witness ==
    /\ Returned
    /\ Len(Fetches) = 3
    /\ Fetches[1].outcome.kind = "timeout"
    /\ Fetches[2].outcome.kind = "timeout"
    /\ Fetches[3].outcome = [kind |-> "text", text |-> "job text"]
    /\ Len(Sleeps) = 2
    /\ result = <<Str("job text"), None>>

\* C7: when every attempt yields None or a retryable exception, the fetch
\* is invoked exactly max_retries times, a sleep of RATE_LIMIT_DELAY * 2^a
\* follows each 0-based attempt a < max_retries - 1, no sleep follows the
\* final attempt, and (None, "Max retries exceeded") is returned.
C7_Exhaustion ==
    (\A i \in 1..Len(Fetches) : Retryable(Fetches[i].outcome)) =>
        /\ Len(Fetches) <= max_retries
        /\ Returned =>
            /\ Len(Fetches) = max_retries
            /\ Len(Sleeps) = IF max_retries = 0 THEN 0 ELSE max_retries - 1
            /\ \A a \in 0..(max_retries - 2) :
                   /\ events[2 * a + 1].ev = "fetch"
                   /\ events[2 * a + 2] = SleepEvent(RATE_LIMIT_DELAY * 2 ^ a)
            /\ max_retries > 0 => LastEventIsFetch
            /\ result = <<None, Str("Max retries exceeded")>>

\* three retryable failures of different kinds, two sleeps, exhaustion
C7_Witness ==
    /\ Returned
    /\ max_retries = 3
    /\ Len(Fetches) = 3
    /\ Fetches[1].outcome.kind = "none"
    /\ Fetches[2].outcome.kind = "timeout"
    /\ Fetches[3].outcome.kind = "request_error"
    /\ result = ExhaustedResult

IsNone(v) == v.py = "None"

\* C8 as stated: the pair returned has exactly one component that is not
\* None; a text comes with error None, a failure comes with text None and a
\* non-empty error message.
C8_Original ==
    Returned =>
        /\ IsNone(result[1]) # IsNone(result[2])
        /\ IsNone(result[1]) => (~IsNone(result[2]) /\ result[2].s # "")

\* C8 amended: the pair returned has exactly one component that is not None;
\* a text comes with error None, a failure comes with text None and an error
\* string that is "Max retries exceeded" or str(e) of the exception that
\* ended the loop, which may be empty.
C8_ExactlyOne ==
    Returned =>
        /\ IsNone(result[1]) # IsNone(result[2])
        /\ ~IsNone(result[1]) =>
               /\ Fetches # <<>>
               /\ Success(Fetches[Len(Fetches)].outcome)
               /\ result[1] = Str(Fetches[Len(Fetches)].outcome.text)
        /\ IsNone(result[1]) =>
               /\ result[2].py = "str"
               /\ \/ result[2].s = "Max retries exceeded"
                  \/ /\ Fetches # <<>>
                     /\ Fetches[Len(Fetches)].outcome.kind = "other"
                     /\ result[2].s = Fetches[Len(Fetches)].outcome.msg

\* failures of both kinds: exhaustion with max_retries = 0 is reached, and
\* so is a terminal exception whose message is empty
C8_Witness ==
    /\ Returned
    /\ result = <<None, Str("")>>
    /\ Fetches # <<>>

(***************************************************************************)
(* Claims on the browser session (BrowserSpec)                             *)
(***************************************************************************)
\* The session as the callers see it: Running while a browser handle is
\* held, Closed once close_browser has ended a session that was started
SessionState ==
    IF _browser # NoHandle THEN "Running"
    ELSE IF close_called /\ launches > 0 THEN "Closed"
    ELSE "Uninitialized"

SessionStep(s, t) ==
    \/ s = t
    \/ s = "Uninitialized" /\ t = "Running"
    \/ s = "Running" /\ t = "Closed"

\* C9: the session moves only Uninitialized -> Running -> Closed, and once
\* it is Closed no get_browser launches a new browser process.
C9_SessionLifecycle ==
    [][ /\ SessionStep(SessionState, SessionState')
        /\ SessionState = "Closed" => launches' = launches ]_vars

\* C10: a get_browser call whose launch fails returns None and leaves both
\* the browser handle and the driver handle unset.
C10_LaunchFailure ==
    (last_call.fn = "get_browser" /\ last_call.failed) =>
        /\ last_call.ret = NoHandle
        /\ _browser = NoHandle
        /\ _playwright = NoHandle

\* C11: close_browser never raises, and a second close_browser called right
\* after a first one leaves the session (both handles) as the first left it.
C11_CloseIdempotent ==
    [][ (last_call.fn = "close_browser" /\ last_call'.fn = "close_browser") =>
            /\ ~last_call'.failed
            /\ _browser' = _browser
            /\ _playwright' = _playwright ]_vars

(***************************************************************************)
(* Claims on the end of a backfill run (Spec)                              *)
(***************************************************************************)
\* C13: whenever a run ends (normal completion, an exception leaving main,
\* or early termination) after the browser was started during the run,
\* close_browser has been called.
C13_BrowserNeverOrphaned ==
    (pc \in {"done", "raised", "interrupted"} /\ launches > 0) => close_called

\* C14: when a run is stopped early, the checkpoint file holds the index of
\* the last record the loop completed.
C14_EarlyTerminationCheckpoint ==
    (pc = "interrupted" /\ visited # <<>>) =>
        checkpoint_file = Complete(visited[Len(visited)])

(***************************************************************************)
(* Claims on scrape_full_description (ScrapeSpec)                          *)
(***************************************************************************)
\* positions of ops holding the operation op
OpsAt(op) == { i \in 1..Len(ops) : ops[i].op = op }
\* the page created at position i of ops has had close called on it
CloseAttempted(i) ==
    \E j \in (i + 1)..Len(ops) :
        /\ ops[j].op = "close"
        /\ ops[j].by = ops[i].by
        /\ \A k \in (i + 1)..(j - 1) : ops[k].op # "new_page"

\* C12: every page created for a fetch, by scrape_with_browser or by the
\* governmentjobs.com branch, has had close attempted on it when the
\* function is left, on every exit path.
C12_PageOwnership ==
    \A i \in OpsAt("new_page") : ops[i].ok => CloseAttempted(i)

\* both functions have left through their except branch with a page created
C12_Witness ==
    /\ f_pc = "return"
    /\ \E i \in OpsAt("goto") : ops[i].by = "governmentjobs" /\ ~ops[i].ok
    /\ \E i \in OpsAt("close") :
           ops[i].by = "scrape_with_browser" /\ ~ops[i].ok

\* the domain of a URL: the last piece of its host
DomainOf(u) == <<u.netloc[Len(u.netloc)]>>

C17_EscalationBound == escalations <= 1

\* C18: on a governmentjobs.com URL the generic extraction
\* (trafilatura.extract) is never run.
C18_SpecializedRouting ==
    DomainOf(url) = <<"governmentjobs.com">> =>
        \A i \in OpsAt("extract") : ops[i].by # "trafilatura"

(***************************************************************************)
(* Claims on scrape_new_jobs (NewJobsSpec)                                 *)
(***************************************************************************)
\* C19: a record that fails does not abort the batch: when scrape_new_jobs
\* is over, the loop has gone through every record of the DataFrame.
C19_FailureIsolation ==
    nj_pc \in {"returned", "raised"} => nj_idx > Len(nj_df)

\* the job numbers of the files saved under one date, in save order
SavedNumbers(date_key) ==
    LET under == SelectSeq(nj_files, LAMBDA f : f.date_key = date_key)
    IN  [i \in 1..Len(under) |-> under[i].job_number]

\* C20: under each date the files saved by a run are numbered 1, 2, 3, ...
\* in save order, with no gap.
C20_SequenceNumbering ==
    \A d \in DateKeys :
        \A i \in 1..Len(SavedNumbers(d)) : SavedNumbers(d)[i] = i

(***************************************************************************)
(* Claims on the pace of network operations (ScrapeSpec)                   *)
(***************************************************************************)
\* positions of ops holding a network operation: a static GET or a browser
\* navigation
NetworkOps == OpsAt("get") \cup OpsAt("goto")

\* C21: between any two consecutive network operations a delay of at least
\* RATE_LIMIT_DELAY elapses: in ops, a sleep lies between them.
C21_RateLimiting ==
    \A i \in NetworkOps : \A j \in NetworkOps :
        i < j => \E k \in (i + 1)..(j - 1) :
                     ops[k].op = "sleep"

(***************************************************************************)
(* Claims on is_generic_content (ClassifierSpec)                           *)
(***************************************************************************)
\* the argument is a text (not None) and the call has returned
Classified == cl_pc = "returned" /\ cl_text # None

\* the words of the set that occur in the first n characters of the text,
\* compared without regard to case
FoundIn(s, words, n) ==
    { w \in words :
        \E i \in 1..Len(s) :
            /\ s[i].w = w \/ (s[i].w = "PRIVACY POLICY" /\ w = "privacy policy")
            /\ PiecesLen(SubSeq(s, 1, i)) + (i - 1) <= n }

\* C22: a text with at least 3 distinct job-signal keywords is never
\* classified as generic, whatever boilerplate it contains.
C22_JobSignalOverride ==
    (Classified
     /\ Cardinality(FoundIn(cl_text.s, job_keywords, TextLen(cl_text.s))) >= 3)
    => cl_result = FALSE

\* C23: a text of fewer than 100 characters, the empty text and None are
\* classified as generic.
C23_ShortText ==
    (cl_pc = "returned"
     /\ (cl_text = None \/ TextLen(cl_text.s) < 100))
    => cl_result = TRUE

\* a text of 50 to 99 characters has been classified
C23_Witness ==
    /\ Classified
    /\ TextLen(cl_text.s) >= 50
    /\ TextLen(cl_text.s) < 100

\* the text with every boilerplate phrase that ends after the first 1000
\* characters replaced by other prose of the same length
WithoutLatePhrases(s) ==
    [i \in 1..Len(s) |->
        IF /\ FoundIn(<<s[i]>>, strong_generic_phrases, s[i].len) # {}
           /\ PiecesLen(SubSeq(s, 1, i)) + (i - 1) > 1000
        THEN Prose(s[i].len)
        ELSE s[i]]

C25_SlugIdempotence == sl_pc = "twice" => sl_again = sl_slug

\* non-empty, lowercase letters, digits and hyphens only, no hyphen at
\* either end, no two hyphens in a row, at most max_length characters
WellShaped(slug) ==
    /\ slug # <<>>
    /\ \A i \in 1..Len(slug) : slug[i] \in Letters \cup Digits \cup {"-"}
    /\ slug[1] # "-"
    /\ slug[Len(slug)] # "-"
    /\ \A i \in 1..(Len(slug) - 1) : ~(slug[i] = "-" /\ slug[i + 1] = "-")
    /\ Len(slug) <= max_length

\* C26: for every input, missing and unusable titles included, create_slug
\* returns a well-shaped slug.
C26_SlugShape == sl_pc \in {"once", "twice"} => WellShaped(sl_slug)

\* a title longer than max_length whose character at max_length is a
\* separator has been slugified
C26_Witness ==
    /\ sl_pc = "once"
    /\ sl_text \notin {None, NaN}
    /\ Len(sl_text.s) > max_length
    /\ sl_text.s[max_length] \in Spacing
    /\ Len(sl_slug) = max_length - 1

(***************************************************************************)
(* Claims on save_full_description (SaveSpec)                              *)
(***************************************************************************)
\* C27: after save_full_description returns path p, the file at p holds
\* exactly the text, in UTF-8, and p is
\* job-descriptions/<year>/<date>/<NN>-<slug of the title>.txt.
C27_SaveRoundTrip ==
    sv_args # None =>
        /\ Exists(files, sv_path)
        /\ utf8_decode(ReadBytes(files, sv_path)) = sv_args.text
        /\ Len(sv_path) = 4
        /\ sv_path[1] = job_descriptions
        /\ sv_path[2] = decimal(sv_args.year)
        /\ sv_path[3] = sv_args.date
        /\ LET name == sv_path[4]
               digits == IF sv_args.job_number < 10 THEN 2
                         ELSE Len(decimal(sv_args.job_number))
           IN  /\ SubSeq(name, 1, digits) = two_digits(sv_args.job_number)
               /\ digits >= 2
               /\ name[digits + 1] = "-"
               /\ SubSeq(name, digits + 2, Len(name) - 4)
                      = create_slug(sv_args.job_title)
               /\ SubSeq(name, Len(name) - 3, Len(name))
                      = <<".", "t", "x", "t">>

\* a second call has written a shorter text to the path of the first one
C27_Witness ==
    /\ sv_calls = 2
    /\ Cardinality(files) = 1
    /\ sv_args.text = <<"a">>
    /\ sv_args.job_number = 1

(***************************************************************************)
(* Claims on extract_with_playwright (ExtractorSpec)                       *)
(***************************************************************************)
\* the extractor has returned a text
Extracted == gj_pc = "returned" /\ gj_text # None

\* C28: the specialized extractor returns None whenever the combined text
\* has 200 characters or fewer.
C28_MinimumLength == Extracted => CombinedLen(gj_text) > 200

\* C29: the text holds the job-details label only when a metadata field was
\* found, and the job-description label only when the body is not empty.
C29_SectionOmission ==
    Extracted =>
        /\ (\E k \in 1..Len(gj_text.metadata) :
                gj_text.metadata[k] = DetailsLabel)
           => header_fields(gj_page) # <<>>
        /\ gj_text.description_label => gj_text.description # <<>>

\* number of times the items of the list of <dd> i are in the text
Occurrences(i) ==
    Cardinality({ k \in 1..Len(gj_text.description) :
                    gj_text.description[k].dd = i })
    + IF \E k \in 1..Len(gj_text.metadata) : gj_text.metadata[k] = Item(i, 1)
      THEN 1 ELSE 0

\* C30: when a list is accepted as the benefits list, its items are in the
\* text exactly once, and the <dd> that holds it is not in the body.
C30_BenefitsNotDuplicated ==
    Extracted =>
        \A i \in 1..Len(gj_page.dds) :
            (\E k \in 1..Len(gj_text.metadata) :
                 gj_text.metadata[k] = BenefitsLabel
                 /\ k < Len(gj_text.metadata)
                 /\ gj_text.metadata[k + 1].dd = i)
            => Occurrences(i) = 1

\* the names of the fields of the header of the text returned
FieldNames ==
    LET fields == SelectSeq(gj_text.metadata, LAMBDA part : part.kind = "field")
    IN  [k \in 1..Len(fields) |-> fields[k].name]

\* C31: in the header of the text returned no field name occurs twice,
\* names being compared without regard to case.
C31_NoDuplicateFields ==
    Extracted =>
        \A i \in 1..Len(FieldNames) : \A j \in 1..Len(FieldNames) :
            i # j => to_lower(FieldNames[i]) # to_lower(FieldNames[j])

\* a text is returned for a page with a term block whose label is, in
\* another case, the name of a JSON-LD field of the page
C31_Witness ==
    /\ Extracted
    /\ \E k \in 1..Len(gj_page.terms) : \E i \in gj_page.json_ld :
           /\ gj_page.terms[k] # json_ld_fields[i].name
           /\ to_lower(gj_page.terms[k]) = json_ld_fields[i].key
    /\ Len(FieldNames) >= 2

(***************************************************************************)
(* Further claims on the backfill run (Spec)                               *)
(***************************************************************************)
\* indexes the loop of the current run has entered
Visited == { visited[k] : k \in 1..Len(visited) }
\* record i had its full_text_preview set when the run read dataset.csv
WasScraped(i) == AlreadyScraped(df0[i + 1])

\* C32: a record whose full_text_preview is already set is not fetched, no
\* file is written for it, its fields stay as they were, in memory and in
\* dataset.csv, and it is counted neither as processed, succeeded nor failed.
C32_AlreadyScrapedLeftAlone ==
    /\ \A i \in Visited :
          WasScraped(i) =>
              /\ i \notin fetched
              /\ i \notin saved
              /\ df[i + 1] = df0[i + 1]
              /\ dataset_csv[i + 1] = df0[i + 1]
    /\ rows_processed = Cardinality({ i \in Visited : ~WasScraped(i) })
    /\ rows_succeeded + rows_failed
          = Cardinality({ i \in Visited : ~WasScraped(i)
                                          /\ ~InvalidUrl(df0[i + 1]) })

\* a run has ended normally after passing an already scraped record and
\* scraping another one
C32_Witness ==
    /\ pc = "done"
    /\ \E i \in Visited : WasScraped(i)
    /\ rows_succeeded > 0

\* C33: whenever the checkpoint file holds index k, dataset.csv holds the
\* full_text_* fields of every record up to k that the run has scraped
\* successfully, so that a run resumed at k + 1 loses no result.
C33_CheckpointNotAhead ==
    checkpoint_file.state = "complete" =>
        \A i \in 0..checkpoint_file.last_completed_row :
            (i < Len(df) /\ AlreadyScraped(df[i + 1]))
            => AlreadyScraped(dataset_csv[i + 1])

(***************************************************************************)
(* Claims on the description files of the backfill (NumberingSpec)         *)
(***************************************************************************)
\* C34: two different records never get the same description file path,
\* within one run and across runs.
C34_NoFileOverwritten ==
    \A w1 \in bn_writes : \A w2 \in bn_writes :
        w1.path = w2.path => w1.row = w2.row

(***************************************************************************)
(* Claims on the end of a backfill run (Spec)                              *)
(***************************************************************************)
\* C35: a run that read its checkpoint and is not terminated reaches the
\* final save and the removal of the checkpoint: it never ends with an
\* exception, also when it processed no record.
C35_EndsNormally == ~(pc = "raised" /\ Readable(loaded))

(***************************************************************************)
(* Claims on the failures of scrape_full_description (ScrapeSpec)          *)
(***************************************************************************)
\* the fetch calls of events
FetchCalls == SelectSeq(events, LAMBDA ev : ev.ev = "fetch")

\* C36: no call of scrape_full_description ends with an exception, so
\* scrape_with_retry takes none of its except branches: a call without a
\* text has made max_retries fetches and reports "Max retries exceeded".
C36_NoExceptionPropagates ==
    /\ \A k \in 1..Len(FetchCalls) :
          FetchCalls[k].outcome.kind \in {"text", "none"}
    /\ r_pc = "returned" =>
          \/ result[1] # None /\ result[2] = None
          \/ /\ result = <<None, Str("Max retries exceeded")>>
             /\ Len(FetchCalls) = max_retries

\* every fetch of a call with max_retries = MaxAttempts has failed, the last
\* one on an exception raised inside scrape_full_description
C36_Witness ==
    /\ r_pc = "returned"
    /\ max_retries = MaxAttempts
    /\ result[1] = None
    /\ OpsAt("raise") # {}

\* C37: a text returned for a URL without governmentjobs.com in it, whether
\* it comes from the static GET, the browser or the escalation, is not
\* generic according to is_generic_content, and has 100 characters or more.
C37_OnlyAcceptedContent ==
    (ret # None /\ ~GovernmentJobsInUrl(url)) =>
        /\ ~is_generic_content(ret)
        /\ TextLen(ret.s) >= 100

\* a text is returned after an escalation to the browser
C37_Witness ==
    /\ f_pc = "return"
    /\ ret # None
    /\ ~GovernmentJobsInUrl(url)
    /\ OpsAt("get") # {}
    /\ escalations >= 1

C39_AcceptsByDefault ==
    Classified =>
        /\ (TextLen(cl_text.s) >= 100
            /\ FoundIn(cl_text.s, strong_generic_phrases, 1000) = {})
           => cl_result = FALSE
        /\ (TextLen(cl_text.s) >= 1000
            /\ Cardinality(FoundIn(cl_text.s, strong_generic_phrases,
                                   TextLen(cl_text.s))) = 1)
           => cl_result = FALSE

\* a text of 1000 characters or more has been classified that holds one
\* boilerplate phrase in its first 1000 characters and no job-signal keyword
C39_Witness ==
    /\ Classified
    /\ TextLen(cl_text.s) >= 1000
    /\ Cardinality(FoundIn(cl_text.s, strong_generic_phrases, 1000)) = 1
    /\ FoundIn(cl_text.s, job_keywords, TextLen(cl_text.s)) = {}

====
